---- MODULE Spec2Model ----
(***************************************************************************)
(* Record-state workflow engine of the CoLRev JSON-RPC layer.              *)
(*                                                                         *)
(* The state is the durable store of one project (records, settings,       *)
(* uploaded files, commit history) plus the outcome of the last request.   *)
(* Every handler method of colrev/ui_jsonrpc/handlers that mutates the     *)
(* project is one action; a handler is a pure operator from the store and  *)
(* the request to an outcome, and the action installs the outcome.         *)
(***************************************************************************)
EXTENDS Integers, Sequences, FiniteSets, TLC

VARIABLES
    records,    \* durable record store: record id -> record dict
    settings,   \* project settings (settings.json)
    files,      \* uploaded search files under data/search: name -> content;
                \* for the project directories: the directories on disk
                \* that hold a settings.json
    pdfs,       \* record ids with a file data/pdfs/<id>.pdf
    last,       \* the last request and its outcome, with the number of
                \* commits the call added to the project's history
    sources,    \* settings.sources: the list of configured search sources
    history,    \* run-history snapshots: results path of a source -> the
                \* content of its search history file
    pc,         \* position of the server loop: read, handle, write, done or
                \* interrupted
    stdin,      \* the lines of the input stream that were not read yet
    stdout,     \* the responses written to the output stream
    request     \* the request that was read and is being handled

vars == <<records, settings, files, pdfs, last, sources, history,
          pc, stdin, stdout, request>>

(***************************************************************************)
(* Bounds                                                                  *)
(***************************************************************************)
MaxChanges == 2     \* entries in one update-decisions request

(***************************************************************************)
(* Status lattice                                                          *)
(***************************************************************************)
RecordState ==
    { "md_retrieved", "md_imported", "md_needs_manual_preparation",
      "md_prepared", "md_processed", "rev_prescreen_excluded",
      "rev_prescreen_included", "pdf_needs_manual_retrieval",
      "pdf_imported", "pdf_not_available", "pdf_needs_manual_preparation",
      "pdf_prepared", "rev_excluded", "rev_included", "rev_synthesized" }

ManualStates ==
    { "md_needs_manual_preparation", "pdf_needs_manual_retrieval",
      "pdf_needs_manual_preparation" }

DeadEndStates == { "rev_prescreen_excluded", "rev_excluded", "pdf_not_available" }

\* the pairs between which an update-decision operation may move a record
ReversalPairs ==
    { <<"rev_prescreen_included", "rev_prescreen_excluded">>,
      <<"rev_prescreen_excluded", "rev_prescreen_included">>,
      <<"rev_included", "rev_excluded">>,
      <<"rev_excluded", "rev_included">> }

\* the allowed-transition table: pipeline order plus the reversal pairs
AllowedTransitions ==
    { <<"md_retrieved", "md_imported">>,
      <<"md_imported", "md_needs_manual_preparation">>,
      <<"md_imported", "md_prepared">>,
      <<"md_needs_manual_preparation", "md_prepared">>,
      <<"md_prepared", "md_processed">>,
      <<"md_processed", "rev_prescreen_excluded">>,
      <<"md_processed", "rev_prescreen_included">>,
      <<"rev_prescreen_included", "pdf_needs_manual_retrieval">>,
      <<"rev_prescreen_included", "pdf_not_available">>,
      <<"rev_prescreen_included", "pdf_imported">>,
      <<"pdf_needs_manual_retrieval", "pdf_imported">>,
      <<"pdf_needs_manual_retrieval", "pdf_not_available">>,
      <<"pdf_imported", "pdf_needs_manual_preparation">>,
      <<"pdf_imported", "pdf_prepared">>,
      <<"pdf_needs_manual_preparation", "pdf_prepared">>,
      <<"pdf_prepared", "rev_excluded">>,
      <<"pdf_prepared", "rev_included">>,
      <<"rev_included", "rev_synthesized">> } \cup ReversalPairs

(***************************************************************************)
(* Values                                                                  *)
(*                                                                         *)
(* A JSON value of a request is [t, v]: t = "str" for a JSON string and    *)
(* t = "int" for a JSON number.  A stored status is [t, v] as well:        *)
(* t = "enum" for a RecordState member, and "str"/"int" for a raw Python   *)
(* value that is not a RecordState member.                                 *)
(***************************************************************************)
J(t, v) == [t |-> t, v |-> v]
Enum(s) == [t |-> "enum", v |-> s]
IsStr(value) == value.t = "str"
\* Python str(value)
Str(value) == value.v

\* a stored status is inside the lattice
InLattice(status) == status.t = "enum" /\ status.v \in RecordState

Fields_ID == "ID"
Fields_ORIGIN == "colrev_origin"
Fields_MD_PROV == "colrev_masterdata_provenance"
Fields_D_PROV == "colrev_data_provenance"
Fields_STATUS == "colrev_status"
Fields_TITLE == "title"
Fields_JOURNAL == "journal"
Fields_FILE == "file"
Fields_SCREENING_CRITERIA == "screening_criteria"
Fields_ENTRYTYPE == "ENTRYTYPE"

\* masterdata fields carry their provenance in colrev_masterdata_provenance
MasterdataFields == { Fields_TITLE, Fields_JOURNAL }
DataProvFields == { Fields_FILE, Fields_STATUS }

NoProv == [source |-> "", note |-> <<>>]
Prov(source, note) == [source |-> source, note |-> note]

\* a provenance note is the list of its comma-separated defect codes
NoNote == <<>>
IgnoredCodes == { "IGNORE:missing" }

\* a record dict
Rec(id, status, title, tnote, journal, jnote, file) ==
    [ ID |-> id,
      ENTRYTYPE |-> "article",
      colrev_status |-> Enum(status),
      title |-> title,
      journal |-> journal,
      file |-> file,
      screening_criteria |-> "",
      colrev_origin |-> <<[source |-> "src.bib", id |-> id]>>,
      colrev_masterdata_provenance |->
          [ title |-> Prov("src.bib", tnote),
            journal |-> Prov("src.bib", jnote) ],
      colrev_data_provenance |->
          [ file |-> IF file = "" THEN NoProv ELSE Prov("pdf_get", NoNote),
            colrev_status |-> NoProv ] ]

(***************************************************************************)
(* Record, dataset and operation primitives                                *)
(***************************************************************************)
\* Record.set_status: the lattice's transition function
set_status(rec, target_state, force) ==
    IF force \/ ( rec.colrev_status.t = "enum"
                  /\ <<rec.colrev_status.v, target_state>> \in AllowedTransitions )
    THEN [ok |-> TRUE, rec |-> [rec EXCEPT !.colrev_status = Enum(target_state)]]
    ELSE [ok |-> FALSE, rec |-> rec]

\* Record.update_field: the tracked update of one field
update_field(rec, key, value, source, note) ==
    IF key \in MasterdataFields
    THEN [rec EXCEPT ![key] = value,
                     !.colrev_masterdata_provenance[key] = Prov(source, note)]
    ELSE IF key = Fields_STATUS
    THEN [rec EXCEPT !.colrev_status = J("str", value),
                     !.colrev_data_provenance[key] = Prov(source, note)]
    ELSE [rec EXCEPT ![key] = value,
                     !.colrev_data_provenance[key] = Prov(source, note)]

\* the defect codes of a note that are not marked IGNORE:
FatalCodes(note) == SelectSeq(note, LAMBDA c : c \notin IgnoredCodes)

\* PrepRecord.has_fatal_quality_defects
has_fatal_quality_defects(rec) ==
    \E f \in MasterdataFields :
        FatalCodes(rec.colrev_masterdata_provenance[f].note) # <<>>

\* Dataset.save_records_dict
save_records_dict(store, recs, partial) ==
    IF partial
    THEN [r \in DOMAIN store \cup DOMAIN recs |->
              IF r \in DOMAIN recs THEN recs[r] ELSE store[r]]
    ELSE recs

\* the one-record dict {record_id: record}
OneRecord(rid, rec) == [r \in {rid} |-> rec]

\* PrepMan.set_data: transition to md_prepared and save the record
set_data(store, rec) ==
    LET t == set_status(rec, "md_prepared", FALSE) IN
    IF t.ok
    THEN [ok |-> TRUE, records |-> save_records_dict(store, OneRecord(rec.ID, t.rec), TRUE)]
    ELSE [ok |-> FALSE, records |-> store]

\* PDFGetMan.pdf_get_man_record: link the file, or record that there is none
pdf_get_man_record(store, rec, hasFile) ==
    LET target == IF hasFile THEN "pdf_imported" ELSE "pdf_not_available"
        t == set_status(rec, target, FALSE)
        linked == IF hasFile
                  THEN [t.rec EXCEPT !.file = "data/pdfs",
                                     !.colrev_data_provenance.file =
                                         Prov("manual-upload", NoNote)]
                  ELSE t.rec
    IN  IF t.ok
        THEN [ok |-> TRUE, records |-> save_records_dict(store, OneRecord(rec.ID, linked), TRUE)]
        ELSE [ok |-> FALSE, records |-> store]

\* PDFPrep.prepare_pdf on one record; the result of the preparation packages
\* is the collaborator's: "ok" or "defect"
prepare_pdf(rec, result) ==
    IF result = "ok"
    THEN set_status(rec, "pdf_prepared", FALSE).rec
    ELSE [ set_status(rec, "pdf_needs_manual_preparation", FALSE).rec
             EXCEPT !.colrev_data_provenance.file.note = <<"no-text-in-pdf">> ]

\* Screen.include_all_in_screen: every record awaiting screening is included
include_all_in_screen(store) ==
    [r \in DOMAIN store |->
        IF store[r].colrev_status = Enum("pdf_prepared")
        THEN set_status(store[r], "rev_included", FALSE).rec
        ELSE store[r]]

(***************************************************************************)
(* Outcome of a handler call                                               *)
(***************************************************************************)
NoDefects == [f \in {} |-> <<>>]

\* err: "none" on success, else the kind of the raised error
Outcome(err, recs, commits, new_status, remaining) ==
    [ err |-> err, records |-> recs, commits |-> commits,
      new_status |-> new_status, remaining |-> remaining ]

Fail(err, store) == Outcome(err, store, 0, "", NoDefects)
Done(recs, commits) == Outcome("none", recs, commits, "", NoDefects)

\* ReviewManager.create_commit, unless the request asks to skip it
create_commit(skip_commit) == IF skip_commit THEN 0 ELSE 1

ProtectedFields == { Fields_ID, Fields_ORIGIN, Fields_MD_PROV, Fields_D_PROV }

\* the fields parameter: None, a dict, or a non-empty value that is no dict
Falsy(fields) == fields.t = "none" \/ (fields.t = "dict" /\ DOMAIN fields.m = {})
(***************************************************************************)
(* RecordsHandler                                                          *)
(***************************************************************************)
\* the loop over fields_to_update of update_record: a status given as a
\* string is converted to its RecordState member, every other value is
\* assigned as it is
update_record_fields(rec, m) ==
    [rec EXCEPT
        !.title = IF Fields_TITLE \in DOMAIN m THEN Str(m[Fields_TITLE]) ELSE @,
        !.journal = IF Fields_JOURNAL \in DOMAIN m THEN Str(m[Fields_JOURNAL]) ELSE @,
        !.colrev_status =
            IF Fields_STATUS \in DOMAIN m
            THEN IF IsStr(m[Fields_STATUS])
                 THEN Enum(m[Fields_STATUS].v)
                 ELSE m[Fields_STATUS]
            ELSE @]

\* a status given as a string that names no RecordState member (KeyError)
InvalidStatusValue(m) ==
    /\ Fields_STATUS \in DOMAIN m
    /\ IsStr(m[Fields_STATUS])
    /\ m[Fields_STATUS].v \notin RecordState

\* update_record without the check of the protected fields
update_record_unprotected(store, record_id, fields, skip_commit) ==
    IF record_id = "" THEN Fail("param", store)
    ELSE IF Falsy(fields) THEN Fail("param", store)
    ELSE IF fields.t # "dict" THEN Fail("param", store)
    ELSE IF record_id \notin DOMAIN store THEN Fail("not_found", store)
    ELSE IF InvalidStatusValue(fields.m) THEN Fail("param", store)
    ELSE LET record_dict == update_record_fields(store[record_id], fields.m) IN
         Done(save_records_dict(store, OneRecord(record_id, record_dict), TRUE),
              create_commit(skip_commit))

update_record(store, record_id, fields, skip_commit) ==
    IF record_id = "" THEN Fail("param", store)
    ELSE IF Falsy(fields) THEN Fail("param", store)
    ELSE IF fields.t # "dict" THEN Fail("param", store)
    ELSE IF record_id \notin DOMAIN store THEN Fail("not_found", store)
    ELSE IF ProtectedFields \cap DOMAIN fields.m # {} THEN Fail("protected", store)
    ELSE IF InvalidStatusValue(fields.m) THEN Fail("param", store)
    ELSE LET record_dict == update_record_fields(store[record_id], fields.m) IN
         Done(save_records_dict(store, OneRecord(record_id, record_dict), TRUE),
              create_commit(skip_commit))

(***************************************************************************)
(* PrepManHandler                                                          *)
(***************************************************************************)
\* PrepManHandler._extract_defects
extract_defects(rec) ==
    LET md_prov == rec.colrev_masterdata_provenance
        withCodes == { f \in DOMAIN md_prov : FatalCodes(md_prov[f].note) # <<>> }
    IN  [f \in withCodes |-> FatalCodes(md_prov[f].note)]

\* the loop over fields_to_update with every field assigned directly
RECURSIVE prep_man_fields_raw(_, _, _)
prep_man_fields_raw(rec, m, keys) ==
    IF keys = {} THEN rec
    ELSE LET k == CHOOSE x \in keys : TRUE IN
         prep_man_fields_raw(
             IF k = Fields_STATUS
             THEN [rec EXCEPT !.colrev_status = J("str", Str(m[k]))]
             ELSE [rec EXCEPT ![k] = Str(m[k])],
             m, keys \ {k})

\* the loop over fields_to_update of prep_man_update_record: the entry type
\* is assigned directly, every other field goes through Record.update_field
RECURSIVE prep_man_fields(_, _, _)
prep_man_fields(rec, m, keys) ==
    IF keys = {} THEN rec
    ELSE LET k == CHOOSE x \in keys : TRUE IN
         prep_man_fields(
             IF k = Fields_ENTRYTYPE
             THEN [rec EXCEPT !.ENTRYTYPE = Str(m[k])]
             ELSE update_field(rec, k, Str(m[k]), "prep_man|ui", NoNote),
             m, keys \ {k})

prep_man_update_record(store, record_id, fields, skip_commit) ==
    IF record_id = "" THEN Fail("param", store)
    ELSE IF Falsy(fields) THEN Fail("param", store)
    ELSE IF fields.t # "dict" THEN Fail("param", store)
    ELSE IF ProtectedFields \cap DOMAIN fields.m # {} THEN Fail("protected", store)
    ELSE IF record_id \notin DOMAIN store THEN Fail("not_found", store)
    ELSE IF store[record_id].colrev_status # Enum("md_needs_manual_preparation")
         THEN Fail("state", store)
    ELSE LET record == prep_man_fields(store[record_id], fields.m, DOMAIN fields.m) IN
         IF ~has_fatal_quality_defects(record)
         THEN LET sd == set_data(store, record) IN
              IF sd.ok
              THEN Outcome("none", sd.records, create_commit(skip_commit),
                           "md_prepared", NoDefects)
              ELSE Fail("invalid_transition", store)
         ELSE Outcome("none",
                      save_records_dict(store, OneRecord(record_id, record), TRUE),
                      create_commit(skip_commit),
                      "md_needs_manual_preparation", extract_defects(record))

(***************************************************************************)
(* PrescreenHandler and ScreenHandler                                      *)
(***************************************************************************)
Decisions == { "include", "exclude" }

\* prescreen_record saving its one record as the whole dataset
prescreen_record_full_save(store, record_id, decision, skip_commit) ==
    IF record_id = "" THEN Fail("param", store)
    ELSE IF decision = "" THEN Fail("param", store)
    ELSE IF decision \notin Decisions THEN Fail("param", store)
    ELSE IF record_id \notin DOMAIN store THEN Fail("not_found", store)
    ELSE IF store[record_id].colrev_status # Enum("md_processed")
         THEN Fail("state", store)
    ELSE LET t == set_status(store[record_id],
                             IF decision = "include" THEN "rev_prescreen_included"
                                                     ELSE "rev_prescreen_excluded",
                             FALSE) IN
         IF ~t.ok THEN Fail("invalid_transition", store)
         ELSE Outcome("none",
                      save_records_dict(store, OneRecord(record_id, t.rec), FALSE),
                      create_commit(skip_commit), t.rec.colrev_status.v, NoDefects)

\* prescreen_record without the check of the record's state, the status
\* being set whatever the lattice allows
prescreen_record_any_state(store, record_id, decision, skip_commit) ==
    IF record_id = "" THEN Fail("param", store)
    ELSE IF decision = "" THEN Fail("param", store)
    ELSE IF decision \notin Decisions THEN Fail("param", store)
    ELSE IF record_id \notin DOMAIN store THEN Fail("not_found", store)
    ELSE LET t == set_status(store[record_id],
                             IF decision = "include" THEN "rev_prescreen_included"
                                                     ELSE "rev_prescreen_excluded",
                             TRUE) IN
         Outcome("none",
                 save_records_dict(store, OneRecord(record_id, t.rec), TRUE),
                 create_commit(skip_commit), t.rec.colrev_status.v, NoDefects)

prescreen_record(store, record_id, decision, skip_commit) ==
    IF record_id = "" THEN Fail("param", store)
    ELSE IF decision = "" THEN Fail("param", store)
    ELSE IF decision \notin Decisions THEN Fail("param", store)
    ELSE IF record_id \notin DOMAIN store THEN Fail("not_found", store)
    ELSE IF store[record_id].colrev_status # Enum("md_processed")
         THEN Fail("state", store)
    ELSE LET t == set_status(store[record_id],
                             IF decision = "include" THEN "rev_prescreen_included"
                                                     ELSE "rev_prescreen_excluded",
                             FALSE) IN
         IF ~t.ok THEN Fail("invalid_transition", store)
         ELSE Outcome("none",
                      save_records_dict(store, OneRecord(record_id, t.rec), TRUE),
                      create_commit(skip_commit), t.rec.colrev_status.v, NoDefects)

\* criteria_decisions of screen_record: "" for none, else the value given
\* for the one criterion
\* screen_record saving its one record as the whole dataset
screen_record_full_save(store, record_id, decision, criterion_value, skip_commit) ==
    IF record_id = "" THEN Fail("param", store)
    ELSE IF decision = "" THEN Fail("param", store)
    ELSE IF decision \notin Decisions THEN Fail("param", store)
    ELSE IF record_id \notin DOMAIN store THEN Fail("not_found", store)
    ELSE IF store[record_id].colrev_status # Enum("pdf_prepared")
         THEN Fail("state", store)
    ELSE IF criterion_value \notin { "", "in", "out" } THEN Fail("param", store)
    ELSE LET record_dict ==
                 IF criterion_value = "" THEN store[record_id]
                 ELSE [store[record_id] EXCEPT !.screening_criteria = criterion_value]
             t == set_status(record_dict,
                             IF decision = "include" THEN "rev_included"
                                                     ELSE "rev_excluded",
                             FALSE) IN
         IF ~t.ok THEN Fail("invalid_transition", store)
         ELSE Outcome("none",
                      save_records_dict(store, OneRecord(record_id, t.rec), FALSE),
                      create_commit(skip_commit), t.rec.colrev_status.v, NoDefects)

screen_record(store, record_id, decision, criterion_value, skip_commit) ==
    IF record_id = "" THEN Fail("param", store)
    ELSE IF decision = "" THEN Fail("param", store)
    ELSE IF decision \notin Decisions THEN Fail("param", store)
    ELSE IF record_id \notin DOMAIN store THEN Fail("not_found", store)
    ELSE IF store[record_id].colrev_status # Enum("pdf_prepared")
         THEN Fail("state", store)
    ELSE IF criterion_value \notin { "", "in", "out" } THEN Fail("param", store)
    ELSE LET record_dict ==
                 IF criterion_value = "" THEN store[record_id]
                 ELSE [store[record_id] EXCEPT !.screening_criteria = criterion_value]
             t == set_status(record_dict,
                             IF decision = "include" THEN "rev_included"
                                                     ELSE "rev_excluded",
                             FALSE) IN
         IF ~t.ok THEN Fail("invalid_transition", store)
         ELSE Outcome("none",
                      save_records_dict(store, OneRecord(record_id, t.rec), TRUE),
                      create_commit(skip_commit), t.rec.colrev_status.v, NoDefects)

\* the validation of the entries of a changes list
ValidChanges(changes) ==
    /\ changes # <<>>
    /\ \A i \in 1..Len(changes) :
           changes[i].record_id # "" /\ changes[i].decision \in Decisions

\* the loop of update_prescreen_decisions / update_screen_decisions over the
\* entries from position i on.  records_dict is the loaded dict, whose
\* records the loop changes in place; ids are the keys of records_to_save
RECURSIVE decisions_loop(_, _, _, _, _, _)
decisions_loop(records_dict, changes, i, included, excluded, ids) ==
    IF i > Len(changes) THEN [ok |-> TRUE, records_dict |-> records_dict, ids |-> ids]
    ELSE LET record_id == changes[i].record_id
             target_state == IF changes[i].decision = "include"
                             THEN included ELSE excluded
         IN  IF record_id \notin DOMAIN records_dict
             THEN decisions_loop(records_dict, changes, i + 1, included, excluded, ids)
             ELSE IF records_dict[record_id].colrev_status
                         \notin { Enum(included), Enum(excluded) }
             THEN decisions_loop(records_dict, changes, i + 1, included, excluded, ids)
             ELSE IF records_dict[record_id].colrev_status = Enum(target_state)
             THEN decisions_loop(records_dict, changes, i + 1, included, excluded, ids)
             ELSE LET t == set_status(records_dict[record_id], target_state, FALSE) IN
                  IF ~t.ok
                  THEN [ok |-> FALSE, records_dict |-> records_dict, ids |-> ids]
                  ELSE decisions_loop([records_dict EXCEPT ![record_id] = t.rec],
                                      changes, i + 1, included, excluded,
                                      ids \cup {record_id})

\* update_decisions validating each entry only when the loop reaches it: the
\* entries before the first invalid one are saved and committed before the
\* error is raised
update_decisions_lazy(store, changes, included, excluded) ==
    LET bad == { i \in 1..Len(changes) :
                   changes[i].record_id = "" \/ changes[i].decision \notin Decisions }
        n == IF bad = {} THEN Len(changes) + 1
             ELSE CHOOSE i \in bad : \A j \in bad : i <= j
        d == decisions_loop(store, SubSeq(changes, 1, n - 1), 1, included, excluded, {})
        saved == IF d.ok /\ d.ids # {}
                 THEN save_records_dict(store, [r \in d.ids |-> d.records_dict[r]], TRUE)
                 ELSE store
    IN  IF changes = <<>> THEN Fail("param", store)
        ELSE IF ~d.ok THEN Fail("invalid_transition", store)
        ELSE IF bad # {}
        THEN Outcome("param", saved, IF d.ids # {} THEN 1 ELSE 0, "", NoDefects)
        ELSE Done(saved, IF d.ids # {} THEN 1 ELSE 0)

update_decisions(store, changes, included, excluded) ==
    IF ~ValidChanges(changes) THEN Fail("param", store)
    ELSE LET d == decisions_loop(store, changes, 1, included, excluded, {}) IN
         IF ~d.ok THEN Fail("invalid_transition", store)
         ELSE IF d.ids # {}
         THEN Done(save_records_dict(store, [r \in d.ids |-> d.records_dict[r]], TRUE), 1)
         ELSE Done(store, 0)

update_prescreen_decisions(store, changes) ==
    update_decisions(store, changes, "rev_prescreen_included", "rev_prescreen_excluded")

update_screen_decisions(store, changes) ==
    update_decisions(store, changes, "rev_included", "rev_excluded")

include_all_screen(store) ==
    Done(include_all_in_screen(store), 1)
(***************************************************************************)
(* PDFGetHandler                                                           *)
(***************************************************************************)
\* the automatic preparation of upload_pdf on the reloaded record; prep is
\* the collaborator's result: "ok", "defect", or "raise" for an exception,
\* which the handler catches
auto_prep(store, record_id, prep) ==
    IF prep = "raise" THEN store
    ELSE save_records_dict(
             store, OneRecord(record_id, prepare_pdf(store[record_id], prep)), TRUE)

\* the outcome of upload_pdf together with the set of PDF files on disk
upload_pdf(store, pdf_files, record_id, filename, content, skip_commit, prep) ==
    LET fail(err) == [out |-> Fail(err, store), pdfs |-> pdf_files] IN
    IF record_id = "" THEN fail("param")
    ELSE IF filename = "" THEN fail("param")
    ELSE IF content = "" THEN fail("param")
    ELSE IF record_id \notin DOMAIN store THEN fail("not_found")
    ELSE IF store[record_id].colrev_status
                \notin { Enum("pdf_needs_manual_retrieval"),
                         Enum("pdf_needs_manual_preparation") }
         THEN fail("state")
    ELSE IF content = "not-base64" THEN fail("param")
    ELSE LET is_reupload ==
                 store[record_id].colrev_status = Enum("pdf_needs_manual_preparation")
             written == pdf_files \cup {record_id}
             linked ==
                 IF is_reupload
                 THEN [ok |-> TRUE,
                       records |->
                           save_records_dict(
                               store,
                               OneRecord(record_id,
                                   set_status(
                                       [store[record_id] EXCEPT
                                           !.colrev_data_provenance.file =
                                               Prov("manual-upload", NoNote)],
                                       "pdf_imported", TRUE).rec),
                               TRUE)]
                 ELSE pdf_get_man_record(store, store[record_id], TRUE)
         IN  IF ~linked.ok
             THEN [out |-> Fail("invalid_transition", store), pdfs |-> written]
             ELSE LET final == auto_prep(linked.records, record_id, prep) IN
                  [out |-> Outcome("none", final, create_commit(skip_commit),
                                   final[record_id].colrev_status.v, NoDefects),
                   pdfs |-> written]

\* mark_pdf_not_available with a repeated call on a record already in
\* pdf_not_available answered as a success that changes nothing
mark_pdf_not_available_idempotent(store, record_id, skip_commit) ==
    IF record_id = "" THEN Fail("param", store)
    ELSE IF record_id \notin DOMAIN store THEN Fail("not_found", store)
    ELSE IF store[record_id].colrev_status = Enum("pdf_not_available")
         THEN Outcome("none", store, 0, "pdf_not_available", NoDefects)
    ELSE IF store[record_id].colrev_status # Enum("pdf_needs_manual_retrieval")
         THEN Fail("state", store)
    ELSE LET m == pdf_get_man_record(store, store[record_id], FALSE) IN
         IF ~m.ok THEN Fail("invalid_transition", store)
         ELSE Outcome("none", m.records, create_commit(skip_commit),
                      m.records[record_id].colrev_status.v, NoDefects)

mark_pdf_not_available(store, record_id, skip_commit) ==
    IF record_id = "" THEN Fail("param", store)
    ELSE IF record_id \notin DOMAIN store THEN Fail("not_found", store)
    ELSE IF store[record_id].colrev_status # Enum("pdf_needs_manual_retrieval")
         THEN Fail("state", store)
    ELSE LET m == pdf_get_man_record(store, store[record_id], FALSE) IN
         IF ~m.ok THEN Fail("invalid_transition", store)
         ELSE Outcome("none", m.records, create_commit(skip_commit),
                      m.records[record_id].colrev_status.v, NoDefects)

(***************************************************************************)
(* SettingsHandler and SearchHandler.upload_search_file                    *)
(***************************************************************************)
\* the settings object has the sections project and prep, each with one
\* attribute; new_settings maps a section to a dict key -> value
SettingsKeys == [project |-> {"title"}, prep |-> {"fields_to_keep"}]

\* the (section, key) pairs of new_settings that name an attribute of the
\* settings object
updated_fields(new_settings) ==
    UNION { { <<sec, k>> : k \in DOMAIN new_settings[sec] \cap SettingsKeys[sec] } :
            sec \in DOMAIN new_settings \cap DOMAIN SettingsKeys }

\* the outcome of update_settings: error kind, the settings saved, commits
update_settings(current_settings, new_settings, skip_commit) ==
    IF new_settings.t = "none" \/ (new_settings.t = "dict" /\ DOMAIN new_settings.m = {})
    THEN [err |-> "param", settings |-> current_settings, commits |-> 0]
    ELSE IF new_settings.t # "dict"
    THEN [err |-> "param", settings |-> current_settings, commits |-> 0]
    ELSE LET upd == updated_fields(new_settings.m) IN
         [ err |-> "none",
           settings |->
               [sec \in DOMAIN current_settings |->
                   [k \in DOMAIN current_settings[sec] |->
                       IF <<sec, k>> \in upd
                       THEN new_settings.m[sec][k]
                       ELSE current_settings[sec][k]]],
           commits |-> IF ~skip_commit /\ upd # {} THEN 1 ELSE 0 ]

\* the outcome of upload_search_file: error kind and the files on disk; a
\* filename is the pair of its directory part and its name
upload_search_file(search_files, filename, content, encoding) ==
    IF filename = <<"", "">> THEN [err |-> "param", files |-> search_files]
    ELSE IF content = "" THEN [err |-> "param", files |-> search_files]
    ELSE IF filename[2] = "" THEN [err |-> "param", files |-> search_files]
    ELSE IF encoding = "base64" /\ content = "not-base64"
    THEN [err |-> "param", files |-> search_files]
    ELSE [err |-> "none",
          files |-> [n \in DOMAIN search_files \cup {filename[2]} |->
                        IF n = filename[2] THEN content ELSE search_files[n]]]
(***************************************************************************)
(* Requests                                                                *)
(***************************************************************************)
RecIds == { "r1", "r2" }
\* record_id of a single-record request: an existing id, an unknown id, or
\* missing
RecordIdInputs == { "r1", "r9", "" }
DecisionInputs == Decisions \cup { "maybe", "" }
\* decision and the value given for the one screening criterion ("" if none)
ScreenInputs ==
    { <<"include", "">>, <<"include", "in">>, <<"exclude", "out">>,
      <<"exclude", "bad">>, <<"maybe", "">>, <<"", "in">> }

Absent == J("absent", "")

\* the dict with the keys whose value is given
MkMap(t, j, s, i) ==
    LET c == [title |-> t, journal |-> j, colrev_status |-> s, ID |-> i] IN
    [k \in { x \in DOMAIN c : c[x] # Absent } |-> c[k]]

EmptyMap == MkMap(Absent, Absent, Absent, Absent)

\* the values of a fields parameter that are no usable dict: None, an empty
\* dict, and a non-empty value that is no dict
NoDictInputs ==
    { [t |-> "none", m |-> EmptyMap], [t |-> "dict", m |-> EmptyMap],
      [t |-> "list", m |-> EmptyMap] }

\* the fields parameter of update_record
FieldsInputs ==
    { [t |-> "dict", m |-> m] : m \in
        { MkMap(J("str", "T"), Absent, Absent, Absent),
          MkMap(Absent, Absent, J("str", "bogus"), Absent),
          MkMap(Absent, Absent, J("int", "5"), Absent),
          MkMap(J("str", "T"), Absent, J("str", "rev_synthesized"), Absent),
          MkMap(J("str", "T"), Absent, Absent, J("str", "x")) } }
    \cup NoDictInputs

\* the fields parameter of prep_man_update_record
PrepManFieldsInputs ==
    { [t |-> "dict", m |-> m] : m \in
        { MkMap(J("str", "T"), Absent, Absent, Absent),
          MkMap(J("str", "T"), J("str", "Jn"), Absent, Absent),
          MkMap(J("str", "T"), Absent, J("str", "rev_synthesized"), Absent),
          MkMap(J("str", "T"), Absent, Absent, J("str", "x")) } }
    \cup NoDictInputs

HasProtected(fields) == ProtectedFields \cap DOMAIN fields.m # {}

Change(record_id, decision) == [record_id |-> record_id, decision |-> decision]
\* the entries a changes list is drawn from, in the order they are listed
ChangeList ==
    << Change("r1", "include"), Change("r9", "include"), Change("r2", "exclude"),
       Change("r2", "maybe") >>

\* the entries of list s at the positions I, in the order of s
RECURSIVE Restrict(_, _)
Restrict(s, I) ==
    IF I = {} THEN <<>>
    ELSE LET i == CHOOSE x \in I : \A y \in I : x <= y IN
         <<s[i]>> \o Restrict(s, I \ {i})

ChangesInputs ==
    { Restrict(ChangeList, I) :
        I \in { K \in SUBSET (1..Len(ChangeList)) : Cardinality(K) <= MaxChanges } }

\* filename, content and the result of the automatic preparation, which
\* runs only for an upload that was accepted
UploadInputs ==
    { <<"", "JVBERi0=", "ok">>, <<"a.pdf", "", "ok">>, <<"a.pdf", "not-base64", "ok">>,
      <<"a.pdf", "JVBERi0=", "ok">>, <<"a.pdf", "JVBERi0=", "defect">>,
      <<"a.pdf", "JVBERi0=", "raise">> }

SettingsInputs ==
    { [t |-> "none", m |-> EmptyMap],
      [t |-> "list", m |-> EmptyMap],
      [t |-> "dict", m |-> [project |-> [title |-> "t1"]]],
      [t |-> "dict", m |-> [project |-> [nope |-> "x"]]],
      [t |-> "dict", m |-> [prep |-> [fields_to_keep |-> "f1"],
                            project |-> [title |-> "t0"]]] }

(***************************************************************************)
(* Initial state: a project whose records were imported and processed by   *)
(* the pipeline up to some stage                                           *)
(***************************************************************************)
WithFile ==
    { "pdf_imported", "pdf_needs_manual_preparation", "pdf_prepared",
      "rev_excluded", "rev_included", "rev_synthesized" }

InitRecords(id) ==
    { Rec(id, s, "T0", NoNote, "J0", NoNote, IF s \in WithFile THEN "data/pdfs" ELSE "") :
        s \in RecordState \ { "md_needs_manual_preparation",
                              "pdf_needs_manual_preparation" } }
    \cup { [ Rec(id, "pdf_needs_manual_preparation", "T0", NoNote, "J0", NoNote,
                 "data/pdfs")
               EXCEPT !.colrev_data_provenance.file.note = <<"no-text-in-pdf">> ] }
    \cup { Rec(id, "md_needs_manual_preparation", "UNKNOWN", <<"missing">>,
               "UNKNOWN", <<"missing">>, ""),
           Rec(id, "md_needs_manual_preparation", "UNKNOWN", <<"missing">>,
               "J0", NoNote, ""),
           Rec(id, "md_needs_manual_preparation", "UNKNOWN", <<"IGNORE:missing">>,
               "UNKNOWN", <<"missing">>, "") }

InitSettings == [project |-> [title |-> "t0"], prep |-> [fields_to_keep |-> "f0"]]
NoFiles == [n \in {} |-> ""]

NoHistory == << >>

NoRequest ==
    [ op |-> "init", record_id |-> "", err |-> "none", skipped |-> FALSE,
      protected |-> FALSE, entries |-> 0, commits |-> 0, new_status |-> "",
      remaining |-> NoDefects ]

\* the second record is one the pipeline has brought to a decision stage
InitOthers(id) ==
    { x \in InitRecords(id) :
        x.colrev_status.v \in { "rev_prescreen_included", "rev_included" } }

\* no request is being handled
Idle == << >>

\* the server loop waiting for a request, nothing read and nothing written
ServerIdle ==
    /\ pc = "read"
    /\ stdin = <<>>
    /\ stdout = <<>>
    /\ request = Idle

Init ==
    /\ ServerIdle
    /\ records \in { [r \in RecIds |-> IF r = "r1" THEN a ELSE b] :
                       a \in InitRecords("r1"), b \in InitOthers("r2") }
    /\ settings = InitSettings
    /\ files = NoFiles
    /\ pdfs = { r \in RecIds : records[r].file # "" }
    /\ last = NoRequest
    /\ sources = <<>>
    /\ history = NoHistory

(***************************************************************************)
(* Actions: one per handler method                                         *)
(***************************************************************************)
\* what is kept of a handled request: its parameters and its response;
\* skipped is the skip_commit flag of a request that succeeded
Request(op, record_id, skip_commit, protected, entries, o) ==
    [ op |-> op, record_id |-> record_id, err |-> o.err,
      skipped |-> skip_commit /\ o.err = "none", protected |-> protected,
      entries |-> entries, commits |-> o.commits, new_status |-> o.new_status,
      remaining |-> o.remaining ]

UpdateRecord ==
    \E rid \in RecordIdInputs, f \in FieldsInputs, skip \in BOOLEAN :
        LET o == update_record(records, rid, f, skip) IN
        /\ records' = o.records
        /\ last' = Request("update_record", rid, skip, HasProtected(f), 0, o)
        /\ UNCHANGED <<settings, files, pdfs, sources, history, pc, stdin, stdout, request>>

PrepManUpdateRecord ==
    \E rid \in RecordIdInputs, f \in PrepManFieldsInputs, skip \in BOOLEAN :
        LET o == prep_man_update_record(records, rid, f, skip) IN
        /\ records' = o.records
        /\ last' = Request("prep_man_update_record", rid, skip, HasProtected(f), 0, o)
        /\ UNCHANGED <<settings, files, pdfs, sources, history, pc, stdin, stdout, request>>

PrescreenRecord ==
    \E rid \in RecordIdInputs, d \in DecisionInputs, skip \in BOOLEAN :
        LET o == prescreen_record(records, rid, d, skip) IN
        /\ records' = o.records
        /\ last' = Request("prescreen_record", rid, skip, FALSE, 0, o)
        /\ UNCHANGED <<settings, files, pdfs, sources, history, pc, stdin, stdout, request>>

ScreenRecord ==
    \E rid \in RecordIdInputs, dc \in ScreenInputs, skip \in BOOLEAN :
        LET o == screen_record(records, rid, dc[1], dc[2], skip) IN
        /\ records' = o.records
        /\ last' = Request("screen_record", rid, skip, FALSE, 0, o)
        /\ UNCHANGED <<settings, files, pdfs, sources, history, pc, stdin, stdout, request>>

\* skip is the skip_commit parameter of the request, which the handler
\* does not read
UpdatePrescreenDecisions ==
    \E ch \in ChangesInputs, skip \in BOOLEAN :
        LET o == update_prescreen_decisions(records, ch) IN
        /\ records' = o.records
        /\ last' = Request("update_prescreen_decisions", "", skip, FALSE, Len(ch), o)
        /\ UNCHANGED <<settings, files, pdfs, sources, history, pc, stdin, stdout, request>>

UpdateScreenDecisions ==
    \E ch \in ChangesInputs, skip \in BOOLEAN :
        LET o == update_screen_decisions(records, ch) IN
        /\ records' = o.records
        /\ last' = Request("update_screen_decisions", "", skip, FALSE, Len(ch), o)
        /\ UNCHANGED <<settings, files, pdfs, sources, history, pc, stdin, stdout, request>>

IncludeAllScreen ==
    \E skip \in BOOLEAN :
        LET o == include_all_screen(records) IN
        /\ records' = o.records
        /\ last' = Request("include_all_screen", "", skip, FALSE, 0, o)
        /\ UNCHANGED <<settings, files, pdfs, sources, history, pc, stdin, stdout, request>>

UploadPdf ==
    \E rid \in RecordIdInputs, skip \in BOOLEAN, up \in UploadInputs :
        LET u == upload_pdf(records, pdfs, rid, up[1], up[2], skip, up[3]) IN
        /\ records' = u.out.records
        /\ pdfs' = u.pdfs
        /\ last' = Request("upload_pdf", rid, skip, FALSE, 0, u.out)
        /\ UNCHANGED <<settings, files, sources, history, pc, stdin, stdout, request>>

MarkPdfNotAvailable ==
    \E rid \in RecordIdInputs, skip \in BOOLEAN :
        LET o == mark_pdf_not_available(records, rid, skip) IN
        /\ records' = o.records
        /\ last' = Request("mark_pdf_not_available", rid, skip, FALSE, 0, o)
        /\ UNCHANGED <<settings, files, pdfs, sources, history, pc, stdin, stdout, request>>

UpdateSettings ==
    \E ns \in SettingsInputs, skip \in BOOLEAN :
        LET u == update_settings(settings, ns, skip) IN
        /\ settings' = u.settings
        /\ last' = Request("update_settings", "", skip, FALSE, 0,
                           Outcome(u.err, records, u.commits, "", NoDefects))
        /\ UNCHANGED <<records, files, pdfs, sources, history, pc, stdin, stdout, request>>

UploadSearchFile ==
    \E fn \in { <<"", "">>, <<"data/", "">>, <<"", "a.ris">>, <<"../", "a.ris">> },
       c \in { "", "not-base64", "VFk=" }, enc \in { "utf-8", "base64" } :
        LET u == upload_search_file(files, fn, c, enc) IN
        /\ files' = u.files
        /\ last' = Request("upload_search_file", "", FALSE, FALSE, 0,
                           Outcome(u.err, records, 0, "", NoDefects))
        /\ UNCHANGED <<records, settings, pdfs, sources, history, pc, stdin, stdout, request>>

Next ==
    \/ UpdateRecord
    \/ PrepManUpdateRecord
    \/ PrescreenRecord
    \/ ScreenRecord
    \/ UpdatePrescreenDecisions
    \/ UpdateScreenDecisions
    \/ IncludeAllScreen
    \/ UploadPdf
    \/ MarkPdfNotAvailable

Spec == Init /\ [][Next]_vars

(***************************************************************************)
(* The project-level operations (settings, uploaded search files) on a     *)
(* project whose records are not touched                                   *)
(***************************************************************************)
InitProject ==
    /\ Init
    /\ records["r1"].colrev_status = Enum("md_processed")
    /\ records["r2"].colrev_status = Enum("rev_included")

NextProject ==
    \/ UpdateSettings
    \/ UploadSearchFile
    \/ PrescreenRecord

SpecProject == InitProject /\ [][NextProject]_vars

(***************************************************************************)
(* Search sources and their run-history snapshots                          *)
(***************************************************************************)
\* Python's None for an optional string
None == "None"

\* search_parameters of a source: a dict key -> value; {} by default
NoParams == << >>

\* an ExtendedSearchFile; search_results_path identifies the source and
\* its search history file
Source(search_results_path, platform, search_type, search_string, search_parameters) ==
    [ search_results_path |-> search_results_path, platform |-> platform,
      search_type |-> search_type, search_string |-> search_string,
      search_parameters |-> search_parameters ]

\* _source_settings_changed looking at the query only
source_settings_changed_query_only(source, snapshot) ==
    source.search_string # snapshot.search_string

\* StatusHandler._source_settings_changed
source_settings_changed(source, snapshot) ==
    IF source.search_string # snapshot.search_string THEN TRUE
    ELSE source.search_parameters # snapshot.search_parameters

\* ExtendedSearchFile.to_dict: the configuration of the source with the
\* path of its own history file
to_dict(source) ==
    [ search_results_path |-> source.search_results_path,
      platform |-> source.platform, search_type |-> source.search_type,
      search_string |-> source.search_string,
      search_parameters |-> source.search_parameters,
      search_history_path |-> <<source.search_results_path, "_search_history.json">> ]

\* the content of a snapshot without the parameters of the source
history_data_without_parameters(source, run_date) ==
    LET d == to_dict(source) IN
    [ k \in (DOMAIN d \ {"search_history_path", "search_parameters"}) \cup {"last_run"} |->
        IF k = "last_run" THEN (IF run_date = None THEN "now" ELSE run_date)
        ELSE d[k] ]

\* the content _save_source_history writes: to_dict without
\* search_history_path, with last_run; run_date None is the current time
history_data(source, run_date) ==
    LET d == to_dict(source) IN
    [ k \in (DOMAIN d \ {"search_history_path"}) \cup {"last_run"} |->
        IF k = "last_run" THEN (IF run_date = None THEN "now" ELSE run_date)
        ELSE d[k] ]

\* _save_source_history that stamps every snapshot with the current time
save_source_history_now(hist, source, run_date) ==
    [ path \in DOMAIN hist \cup {source.search_results_path} |->
        IF path = source.search_results_path THEN history_data(source, None)
        ELSE hist[path] ]

\* SearchHandler._save_source_history: the history files after the write
save_source_history(hist, source, run_date) ==
    [ path \in DOMAIN hist \cup {source.search_results_path} |->
        IF path = source.search_results_path THEN history_data(source, run_date)
        ELSE hist[path] ]

\* dict.get(key, default) on a dict modelled as a function
Get(d, key, default) == IF key \in DOMAIN d THEN d[key] ELSE default

\* the results of _check_source_staleness: (is_stale, stale_reason)
NotStale == <<FALSE, None>>
NotRun == <<TRUE, "Search has not been run">>
QueryChanged == <<TRUE, "Search query changed">>
ParametersChanged == <<TRUE, "Search parameters changed">>

\* _check_source_staleness comparing the parameters before the query
check_source_staleness_parameters_first(source, hist) ==
    IF source.search_results_path \notin DOMAIN hist THEN NotRun
    ELSE LET snapshot == hist[source.search_results_path] IN
         IF source.search_parameters # Get(snapshot, "search_parameters", NoParams)
         THEN ParametersChanged
         ELSE IF source.search_string # Get(snapshot, "search_string", "")
         THEN QueryChanged
         ELSE NotStale

\* SearchHandler._check_source_staleness; the history files the handlers
\* write are readable JSON
check_source_staleness(source, hist) ==
    IF source.search_results_path \notin DOMAIN hist THEN NotRun
    ELSE LET snapshot == hist[source.search_results_path] IN
         IF source.search_string # Get(snapshot, "search_string", "")
         THEN QueryChanged
         ELSE IF source.search_parameters # Get(snapshot, "search_parameters", NoParams)
         THEN ParametersChanged
         ELSE NotStale

\* the members of colrev.constants.SearchType
SearchType == { "DB", "API", "BACKWARD", "FORWARD", "TOC", "OTHER", "FILES", "MD" }

\* endpoint.split(".")[-1]
endpoint_name(endpoint) ==
    CASE endpoint = "colrev.pubmed" -> "pubmed"
      [] endpoint = "colrev.crossref" -> "crossref"
      [] endpoint = "colrev.unknown_source" -> "unknown_source"
      [] OTHER -> endpoint

\* urllib.parse.quote on the search strings of the model
quote(search_string) ==
    CASE search_string = "cancer AND treatment" -> "cancer%20AND%20treatment"
      [] OTHER -> search_string

\* the PubMed eSearch URL of a search string
pubmed_url(search_string) ==
    << "https://eutils.ncbi.nlm.nih.gov/entrez/eutils/esearch.fcgi?db=pubmed&term=",
       quote(search_string) >>

\* source_filename == filename or source_filename.endswith(filename), on
\* paths split into directory, stem and extension
matches(source_filename, filename) ==
    /\ Len(filename) <= Len(source_filename)
    /\ SubSeq(source_filename, Len(source_filename) - Len(filename) + 1,
              Len(source_filename)) = filename

\* the index of the first source the filename matches, 0 if there is none
find_source(srcs, filename) ==
    IF \E i \in 1..Len(srcs) : matches(srcs[i].search_results_path, filename)
    THEN CHOOSE i \in 1..Len(srcs) :
            /\ matches(srcs[i].search_results_path, filename)
            /\ \A j \in 1..(i - 1) : ~matches(srcs[j].search_results_path, filename)
    ELSE 0

\* the outcome of a request of the search handler: the sources of the
\* settings, the history files and the results files after it, the
\* history files it wrote and the commits it created
SourcesOutcome(op, err, srcs, hist, fls, written, commits) ==
    [ op |-> op, err |-> err, sources |-> srcs, history |-> hist, files |-> fls,
      written |-> written, commits |-> commits, stale |-> <<>> ]

\* an empty results file
Empty == << >>

\* the content of a results file: the records a completed run retrieved
\* for a query and its parameters
Results(search_string, search_parameters) ==
    [ search_string |-> search_string, search_parameters |-> search_parameters ]

\* SearchHandler.add_source
add_source(srcs, hist, fls, endpoint, search_type, search_string, filename, run_date, skip_commit) ==
    IF endpoint = "" THEN SourcesOutcome("add_source", "param", srcs, hist, fls, {}, 0)
    ELSE IF search_type = "" THEN SourcesOutcome("add_source", "param", srcs, hist, fls, {}, 0)
    ELSE IF search_type \notin SearchType
    THEN SourcesOutcome("add_source", "param", srcs, hist, fls, {}, 0)
    ELSE
    LET fname == IF filename = <<>>
                 THEN << "data/search/", endpoint_name(endpoint), ".bib" >>
                 ELSE filename
        new_source ==
            Source(fname, endpoint, search_type, search_string,
                   IF search_type = "API" /\ endpoint = "colrev.pubmed"
                   THEN [url |-> pubmed_url(search_string)]
                   ELSE NoParams)
        is_db == search_type = "DB"
    IN  SourcesOutcome("add_source", "none", Append(srcs, new_source),
                       IF is_db THEN save_source_history(hist, new_source, run_date) ELSE hist,
                       fls,
                       IF is_db THEN {fname} ELSE {},
                       IF skip_commit THEN 0 ELSE 1)

\* SearchHandler.remove_source
remove_source(srcs, hist, fls, filename, delete_file, skip_commit) ==
    IF filename = <<>> THEN SourcesOutcome("remove_source", "param", srcs, hist, fls, {}, 0)
    ELSE
    LET source_index == find_source(srcs, filename) IN
    IF source_index = 0
    THEN SourcesOutcome("remove_source", "not_found", srcs, hist, fls, {}, 0)
    ELSE
    LET path == srcs[source_index].search_results_path IN
    SourcesOutcome("remove_source", "none",
                   SubSeq(srcs, 1, source_index - 1) \o SubSeq(srcs, source_index + 1, Len(srcs)),
                   [h \in DOMAIN hist \ {path} |-> hist[h]],
                   IF delete_file THEN [f \in DOMAIN fls \ {path} |-> fls[f]] ELSE fls,
                   {},
                   IF skip_commit THEN 0 ELSE 1)

\* SearchHandler.update_source; search_string None and search_parameters
\* Absent are parameters the request does not give
update_source(srcs, hist, fls, filename, search_string, search_parameters, run_date, skip_commit) ==
    IF filename = <<>> THEN SourcesOutcome("update_source", "param", srcs, hist, fls, {}, 0)
    ELSE
    LET index == find_source(srcs, filename) IN
    IF index = 0
    THEN SourcesOutcome("update_source", "not_found", srcs, hist, fls, {}, 0)
    ELSE
    LET source_to_update == srcs[index]
        path == source_to_update.search_results_path
        string_given == search_string # None
        string_changed == string_given /\ source_to_update.search_string # search_string
        rebuilt ==
            IF /\ string_given
               /\ source_to_update.search_type = "API"
               /\ source_to_update.platform = "colrev.pubmed"
            THEN [k \in DOMAIN source_to_update.search_parameters \cup {"url"} |->
                    IF k = "url" THEN pubmed_url(search_string)
                    ELSE source_to_update.search_parameters[k]]
            ELSE source_to_update.search_parameters
        given == search_parameters.t # "absent"
        url_changed ==
            /\ given
            /\ "url" \in DOMAIN search_parameters.v
            /\ Get(rebuilt, "url", <<>>) # search_parameters.v.url
        merged ==
            IF given
            THEN [k \in DOMAIN rebuilt \cup DOMAIN search_parameters.v |->
                    IF k \in DOMAIN search_parameters.v THEN search_parameters.v[k]
                    ELSE rebuilt[k]]
            ELSE rebuilt
        query_changed == string_changed \/ url_changed
        updated ==
            Source(path, source_to_update.platform, source_to_update.search_type,
                   IF string_given THEN search_string ELSE source_to_update.search_string,
                   merged)
        cleared ==
            IF query_changed /\ path \in DOMAIN fls
            THEN [f \in DOMAIN fls |-> IF f = path THEN Empty ELSE fls[f]]
            ELSE fls
        save == run_date # None /\ run_date # "" /\ source_to_update.search_type = "DB"
    IN  SourcesOutcome("update_source", "none",
                       [srcs EXCEPT ![index] = updated],
                       IF save THEN save_source_history(hist, updated, run_date) ELSE hist,
                       cleared,
                       IF save THEN {path} ELSE {},
                       IF skip_commit THEN 0 ELSE 1)

\* SearchHandler.get_sources: is_stale and stale_reason of every source
get_sources(srcs, hist, fls) ==
    [ SourcesOutcome("get_sources", "none", srcs, hist, fls, {}, 0) EXCEPT
        !.stale = [i \in 1..Len(srcs) |-> check_source_staleness(srcs[i], hist)] ]

\* the run of one source by the search operation: the results are
\* retrieved for the declared query and parameters and the snapshot of
\* the run is written
run_source(state, source) ==
    [ files |-> [f \in DOMAIN state.files \cup {source.search_results_path} |->
                    IF f = source.search_results_path
                    THEN Results(source.search_string, source.search_parameters)
                    ELSE state.files[f]],
      history |-> save_source_history(state.history, source, None) ]

\* the runs of the sources in their order
RECURSIVE run_sources(_, _, _)
run_sources(state, srcs, i) ==
    IF i > Len(srcs) THEN state
    ELSE run_sources(run_source(state, srcs[i]), srcs, i + 1)

\* SearchHandler.search on all sources; a run that does not complete
\* raises and leaves the project as it was
search(srcs, hist, fls, completes, skip_commit) ==
    IF ~completes THEN SourcesOutcome("search", "failed", srcs, hist, fls, {}, 0)
    ELSE
    LET after == run_sources([files |-> fls, history |-> hist], srcs, 1) IN
    SourcesOutcome("search", "none", srcs, after.history, after.files,
                   { srcs[i].search_results_path : i \in 1..Len(srcs) },
                   IF skip_commit THEN 0 ELSE 1)

(***************************************************************************)
(* PrescreenHandler: metadata enrichment                                   *)
(***************************************************************************)
\* key in record_dict and record_dict[key]
HasValue(rec, key) == key \in DOMAIN rec /\ rec[key] # ""

\* the record dict with one more key
WithKey(rec, key, value) ==
    [k \in DOMAIN rec \cup {key} |-> IF k = key THEN value ELSE rec[k]]

\* CrossrefSearchSource.prep_link_md on the record's DOI: the API has an
\* abstract, has none, or fails; the preparation leaves the record in
\* md_prepared
prep_link_md(rec) ==
    CASE rec.doi = "10.1/abstract" ->
            [raised |-> FALSE,
             rec |-> [WithKey(rec, "abstract", "A1") EXCEPT
                         !.colrev_status = Enum("md_prepared")]]
      [] rec.doi = "10.1/no-abstract" ->
            [raised |-> FALSE, rec |-> [rec EXCEPT !.colrev_status = Enum("md_prepared")]]
      [] OTHER -> [raised |-> TRUE, rec |-> rec]

\* _enrich_single_record saving the status the preparation leaves
enrich_single_record_keep_status(record_dict) ==
    IF HasValue(record_dict, "doi") /\ record_dict.doi = "10.1/malformed"
    THEN [raised |-> TRUE, success |-> FALSE, enriched_fields |-> <<>>,
          source |-> None, record_data |-> record_dict]
    ELSE
    LET original_abstract == IF "abstract" \in DOMAIN record_dict
                             THEN record_dict.abstract ELSE ""
        linked == IF HasValue(record_dict, "doi")
                  THEN prep_link_md(record_dict)
                  ELSE [raised |-> TRUE, rec |-> record_dict]
        record == IF linked.raised THEN record_dict ELSE linked.rec
        source_used == IF HasValue(record_dict, "doi") /\ ~linked.raised
                       THEN "crossref" ELSE None
        new_abstract == IF "abstract" \in DOMAIN record THEN record.abstract ELSE ""
        enriched_fields == IF new_abstract # "" /\ new_abstract # original_abstract
                           THEN <<"abstract">> ELSE <<>>
    IN  [raised |-> FALSE, success |-> Len(enriched_fields) > 0,
         enriched_fields |-> enriched_fields, source |-> source_used,
         record_data |-> record]

\* PrescreenHandler._enrich_single_record; the Crossref look-up by DOI is
\* modelled, the PubMed look-up that follows it is not.  An exception of
\* the API is caught and logged; the record with the DOI "10.1/malformed"
\* makes the method itself raise
enrich_single_record(record_dict) ==
    IF HasValue(record_dict, "doi") /\ record_dict.doi = "10.1/malformed"
    THEN [raised |-> TRUE, success |-> FALSE, enriched_fields |-> <<>>,
          source |-> None, record_data |-> record_dict]
    ELSE
    LET original_abstract == IF "abstract" \in DOMAIN record_dict
                             THEN record_dict.abstract ELSE ""
        linked == IF HasValue(record_dict, "doi")
                  THEN prep_link_md(record_dict)
                  ELSE [raised |-> TRUE, rec |-> record_dict]
        record == IF linked.raised THEN record_dict
                  ELSE [linked.rec EXCEPT !.colrev_status = record_dict.colrev_status]
        source_used == IF HasValue(record_dict, "doi") /\ ~linked.raised
                       THEN "crossref" ELSE None
        new_abstract == IF "abstract" \in DOMAIN record THEN record.abstract ELSE ""
        enriched_fields == IF new_abstract # "" /\ new_abstract # original_abstract
                           THEN <<"abstract">> ELSE <<>>
    IN  [raised |-> FALSE, success |-> Len(enriched_fields) > 0,
         enriched_fields |-> enriched_fields, source |-> source_used,
         record_data |-> record]

\* one entry of the results list of batch_enrich_records
EnrichResult(id, success, error, enriched_fields) ==
    [id |-> id, success |-> success, error |-> error, enriched_fields |-> enriched_fields]

\* the counters and lists of batch_enrich_records before the loop
NoneEnriched ==
    [enriched_count |-> 0, failed_count |-> 0, results |-> <<>>,
     records_to_save |-> [r \in {} |-> <<>>], aborted |-> FALSE]

\* one iteration of the loop of batch_enrich_records
enrich_step(records_dict, record_id, acc) ==
    IF record_id \notin DOMAIN records_dict
    THEN [acc EXCEPT
            !.failed_count = @ + 1,
            !.results = Append(@, EnrichResult(record_id, FALSE, "Record not found", <<>>))]
    ELSE IF HasValue(records_dict[record_id], "abstract")
    THEN [acc EXCEPT !.results = Append(@, EnrichResult(record_id, TRUE, "", <<>>))]
    ELSE
    LET result == enrich_single_record(records_dict[record_id]) IN
    IF result.raised
    THEN [acc EXCEPT
            !.failed_count = @ + 1,
            !.results = Append(@, EnrichResult(record_id, FALSE, "raised", <<>>))]
    ELSE [acc EXCEPT
            !.enriched_count = IF result.success THEN @ + 1 ELSE @,
            !.records_to_save =
                IF result.success
                THEN WithKey(@, record_id, result.record_data) ELSE @,
            !.results = Append(@, EnrichResult(record_id, result.success, "",
                                               result.enriched_fields))]

\* the loop of batch_enrich_records given up at the first record that
\* fails
RECURSIVE enrich_loop_abort(_, _, _, _)
enrich_loop_abort(records_dict, record_ids, i, acc) ==
    IF i > Len(record_ids) THEN acc
    ELSE LET next == enrich_step(records_dict, record_ids[i], acc) IN
         IF next.failed_count > 0 THEN [next EXCEPT !.aborted = TRUE]
         ELSE enrich_loop_abort(records_dict, record_ids, i + 1, next)

\* the loop of batch_enrich_records over record_ids
RECURSIVE enrich_loop(_, _, _, _)
enrich_loop(records_dict, record_ids, i, acc) ==
    IF i > Len(record_ids) THEN acc
    ELSE enrich_loop(records_dict, record_ids, i + 1,
                     enrich_step(records_dict, record_ids[i], acc))

\* the outcome of an enrichment request
EnrichOutcome(op, err, store, commits, acc) ==
    [ op |-> op, err |-> err, records |-> store, commits |-> commits,
      enriched_count |-> acc.enriched_count, failed_count |-> acc.failed_count,
      results |-> acc.results ]

\* PrescreenHandler.batch_enrich_records
batch_enrich_records(store, record_ids, skip_commit) ==
    IF record_ids = <<>>
    THEN EnrichOutcome("batch_enrich_records", "param", store, 0, NoneEnriched)
    ELSE
    LET acc == enrich_loop(store, record_ids, 1, NoneEnriched) IN
    IF DOMAIN acc.records_to_save # {}
    THEN EnrichOutcome("batch_enrich_records", "none",
                       save_records_dict(store, acc.records_to_save, TRUE),
                       create_commit(skip_commit), acc)
    ELSE EnrichOutcome("batch_enrich_records", "none", store, 0, acc)

\* PrescreenHandler.enrich_record_metadata
enrich_record_metadata(store, record_id, skip_commit) ==
    IF record_id = ""
    THEN EnrichOutcome("enrich_record_metadata", "param", store, 0, NoneEnriched)
    ELSE IF record_id \notin DOMAIN store
    THEN EnrichOutcome("enrich_record_metadata", "not_found", store, 0, NoneEnriched)
    ELSE IF HasValue(store[record_id], "abstract")
    THEN EnrichOutcome("enrich_record_metadata", "none", store, 0,
                       [NoneEnriched EXCEPT
                          !.results = <<EnrichResult(record_id, TRUE, "", <<>>)>>])
    ELSE
    LET result == enrich_single_record(store[record_id]) IN
    IF result.raised
    THEN EnrichOutcome("enrich_record_metadata", "internal", store, 0, NoneEnriched)
    ELSE IF result.success
    THEN EnrichOutcome("enrich_record_metadata", "none",
                       save_records_dict(store, OneRecord(record_id, result.record_data), TRUE),
                       create_commit(skip_commit),
                       [NoneEnriched EXCEPT
                          !.enriched_count = 1,
                          !.results = <<EnrichResult(record_id, TRUE, "", result.enriched_fields)>>])
    ELSE EnrichOutcome("enrich_record_metadata", "none", store, 0,
                       [NoneEnriched EXCEPT
                          !.results = <<EnrichResult(record_id, FALSE, "", <<>>)>>])

(***************************************************************************)
(* StatusHandler                                                           *)
(***************************************************************************)
MaxMergedOrigins == 1   \* origins merged away that the retrieved count misses

\* the counts of get_status_stats().currently: the records whose status is
\* the state; md_retrieved is counted from the origins and is lower by
\* the number of merged origins it misses
currently(store, missed) ==
    [ state \in RecordState |->
        Cardinality({ r \in DOMAIN store : store[r].colrev_status = Enum(state) })
        - (IF state = "md_retrieved" THEN missed ELSE 0) ]

OPERATION_DESCRIPTIONS ==
    { "search", "load", "prep", "dedupe", "prescreen", "pdf_get", "pdf_prep",
      "screen", "data" }

OPERATION_INPUT_STATES ==
    [ search |-> None, load |-> "md_retrieved", prep |-> "md_imported",
      dedupe |-> "md_prepared", prescreen |-> "md_processed",
      pdf_get |-> "rev_prescreen_included", pdf_prep |-> "pdf_imported",
      screen |-> "pdf_prepared", data |-> "rev_included" ]

\* _determine_next_operation looking only at the one input state that
\* OPERATION_INPUT_STATES declares for a stage
determine_next_operation_single(c, srcs) ==
    IF c.md_retrieved > 0 THEN "load"
    ELSE IF c.md_imported > 0 THEN "prep"
    ELSE IF c.md_prepared > 0 THEN "dedupe"
    ELSE IF c.md_processed > 0 THEN "prescreen"
    ELSE IF c.rev_prescreen_included > 0 THEN "pdf_get"
    ELSE IF c.pdf_imported > 0 THEN "pdf_prep"
    ELSE IF c.pdf_prepared > 0 THEN "screen"
    ELSE IF c.rev_included > 0 THEN "data"
    ELSE None

\* StatusHandler._determine_next_operation
determine_next_operation(c, srcs) ==
    IF c.md_retrieved > 0 THEN "load"
    ELSE IF c.md_imported > 0 \/ c.md_needs_manual_preparation > 0 THEN "prep"
    ELSE IF c.md_prepared > 0 THEN "dedupe"
    ELSE IF c.md_processed > 0 THEN "prescreen"
    ELSE IF c.rev_prescreen_included > 0 \/ c.pdf_needs_manual_retrieval > 0
    THEN "pdf_get"
    ELSE IF c.pdf_imported > 0 \/ c.pdf_needs_manual_preparation > 0 THEN "pdf_prep"
    ELSE IF c.pdf_prepared > 0 THEN "screen"
    ELSE IF c.rev_included > 0 THEN "data"
    ELSE None

\* a reason "<what> (run <run_first> first)", or "<what>" alone
Reason(what, run_first) == [what |-> what, run_first |-> run_first]
NoReason == Reason(None, None)

\* the result of a stage of _check_operation_runnable from its count
runnable_if_nonzero(affected_records, what, run_first) ==
    IF affected_records = 0
    THEN [can_run |-> FALSE, reason |-> Reason(what, run_first), affected_records |-> 0]
    ELSE [can_run |-> TRUE, reason |-> NoReason, affected_records |-> affected_records]

\* search_runnable counting a project with sources as one unit of work
search_runnable_flag(srcs) ==
    IF srcs = <<>>
    THEN [can_run |-> FALSE, affected_records |-> 0,
          reason |-> Reason("No search sources configured", None)]
    ELSE [can_run |-> TRUE, reason |-> NoReason, affected_records |-> 1]

\* the branch of _check_operation_runnable for the search operation
search_runnable(srcs) ==
    IF srcs = <<>>
    THEN [can_run |-> FALSE, affected_records |-> 0,
          reason |-> Reason("No search sources configured", None)]
    ELSE [can_run |-> TRUE, reason |-> NoReason, affected_records |-> Len(srcs)]

\* StatusHandler._check_operation_runnable
check_operation_runnable(operation, c, srcs) ==
    CASE operation = "search" -> search_runnable(srcs)
      [] operation = "load" ->
            runnable_if_nonzero(c.md_retrieved, "No records to load", "search")
      [] operation = "prep" ->
            runnable_if_nonzero(c.md_imported + c.md_needs_manual_preparation,
                                "No records to prepare", "load")
      [] operation = "dedupe" ->
            runnable_if_nonzero(c.md_prepared, "No records to deduplicate", "prep")
      [] operation = "prescreen" ->
            runnable_if_nonzero(c.md_processed, "No records to prescreen", "dedupe")
      [] operation = "pdf_get" ->
            runnable_if_nonzero(c.rev_prescreen_included + c.pdf_needs_manual_retrieval,
                                "No records need PDF retrieval", "prescreen")
      [] operation = "pdf_prep" ->
            runnable_if_nonzero(c.pdf_imported + c.pdf_needs_manual_preparation,
                                "No PDFs to prepare", "pdf_get")
      [] operation = "screen" ->
            runnable_if_nonzero(c.pdf_prepared, "No records to screen", "pdf_prep")
      [] operation = "data" ->
            runnable_if_nonzero(c.rev_included, "No records for data extraction",
                                "screen")
      [] OTHER -> [can_run |-> TRUE, reason |-> NoReason, affected_records |-> 0]

\* state_counts without the records in the manual-intervention states
state_counts_single(c) ==
    [ md_retrieved |-> c.md_retrieved,
      md_imported |-> c.md_imported,
      md_prepared |-> c.md_prepared,
      md_processed |-> c.md_processed,
      rev_prescreen_included |-> c.rev_prescreen_included,
      pdf_imported |-> c.pdf_imported,
      pdf_prepared |-> c.pdf_prepared,
      rev_included |-> c.rev_included ]

\* the dict state_counts of _check_needs_rerun
state_counts(c) ==
    [ md_retrieved |-> c.md_retrieved,
      md_imported |-> c.md_imported + c.md_needs_manual_preparation,
      md_prepared |-> c.md_prepared,
      md_processed |-> c.md_processed,
      rev_prescreen_included |-> c.rev_prescreen_included + c.pdf_needs_manual_retrieval,
      pdf_imported |-> c.pdf_imported + c.pdf_needs_manual_preparation,
      pdf_prepared |-> c.pdf_prepared,
      rev_included |-> c.rev_included ]

\* a needs-rerun reason "<count> <what>": "<count> record(s) pending for
\* <operation>", "<count> sources modified since last run", or, with count 1,
\* "<platform> settings modified since last run"
RerunReason(count, what) == [count |-> count, what |-> what]
NoRerun == [needs_rerun |-> FALSE, reason |-> RerunReason(0, None)]

\* StatusHandler._check_search_needs_rerun
check_search_needs_rerun(srcs, hist) ==
    LET modified_sources ==
            { i \in 1..Len(srcs) :
                \/ srcs[i].search_results_path \notin DOMAIN hist
                \/ source_settings_changed(srcs[i], hist[srcs[i].search_results_path]) }
    IN  IF srcs = <<>> THEN NoRerun
        ELSE IF modified_sources = {} THEN NoRerun
        ELSE IF Cardinality(modified_sources) = 1
        THEN [needs_rerun |-> TRUE,
              reason |-> RerunReason(1, srcs[CHOOSE i \in modified_sources : TRUE].platform)]
        ELSE [needs_rerun |-> TRUE,
              reason |-> RerunReason(Cardinality(modified_sources), "sources")]

\* StatusHandler._check_needs_rerun
check_needs_rerun(operation, c, srcs, hist) ==
    IF operation = "search" THEN check_search_needs_rerun(srcs, hist)
    ELSE LET input_state == IF operation \in DOMAIN OPERATION_INPUT_STATES
                            THEN OPERATION_INPUT_STATES[operation] ELSE None
             count == IF input_state \in DOMAIN state_counts(c)
                      THEN state_counts(c)[input_state] ELSE 0
         IN  IF input_state = None THEN NoRerun
             ELSE IF count > 0
             THEN [needs_rerun |-> TRUE, reason |-> RerunReason(count, operation)]
             ELSE NoRerun

\* max(0, n)
max0(n) == IF n < 0 THEN 0 ELSE n

\* currently_dict and total_records of format_comprehensive_status_response
format_comprehensive_status_response(c) ==
    LET currently_dict ==
            [ state \in DOMAIN c |->
                IF state = "md_retrieved" THEN max0(c.md_retrieved) ELSE c[state] ]
    IN  [ currently |-> currently_dict,
          total_records |->
              currently_dict.md_retrieved
              + currently_dict.md_imported
              + currently_dict.md_needs_manual_preparation
              + currently_dict.md_prepared
              + currently_dict.md_processed
              + currently_dict.rev_prescreen_excluded
              + currently_dict.rev_prescreen_included
              + currently_dict.pdf_needs_manual_retrieval
              + currently_dict.pdf_not_available
              + currently_dict.pdf_imported
              + currently_dict.pdf_needs_manual_preparation
              + currently_dict.pdf_prepared
              + currently_dict.rev_excluded
              + currently_dict.rev_included
              + currently_dict.rev_synthesized ]

\* the response of get_preprocessing_summary: the counts of the pipeline
\* and the completion of its stages, with the counts they were computed
\* from; the record counts of the sources are left out
get_preprocessing_summary(store, missed) ==
    LET c == currently(store, missed) IN
    [ op |-> "get_preprocessing_summary", err |-> "none", currently |-> c,
      pipeline_counts |->
          [ md_retrieved |-> c.md_retrieved,
            md_imported |-> c.md_imported + c.md_needs_manual_preparation,
            md_prepared |-> c.md_prepared,
            md_processed |-> c.md_processed ],
      stage_status |->
          [ load_completed |-> c.md_retrieved = 0,
            prep_completed |-> c.md_imported = 0 /\ c.md_needs_manual_preparation = 0,
            dedupe_completed |-> c.md_prepared = 0 ] ]

\* the response of get_status: the next operation and the displayed
\* counts, with the counts they were computed from
get_status(store, missed, srcs) ==
    [ op |-> "get_status", operation |-> None, err |-> "none",
      currently |-> currently(store, missed),
      status |-> format_comprehensive_status_response(currently(store, missed)),
      next_operation |-> determine_next_operation(currently(store, missed), srcs),
      can_run |-> FALSE, reason |-> NoReason, affected_records |-> 0,
      needs_rerun |-> FALSE, needs_rerun_reason |-> RerunReason(0, None) ]

\* get_operation_info answering any name that is given
get_operation_info_any(store, missed, srcs, hist, operation) ==
    LET c == currently(store, missed)
        runnable == check_operation_runnable(operation, c, srcs)
    IN  IF operation = ""
        THEN [ op |-> "get_operation_info", operation |-> operation,
               err |-> "param", currently |-> c, next_operation |-> None,
               can_run |-> FALSE, reason |-> NoReason, affected_records |-> 0,
               needs_rerun |-> FALSE, needs_rerun_reason |-> RerunReason(0, None) ]
        ELSE [ op |-> "get_operation_info", operation |-> operation, err |-> "none",
               currently |-> c, next_operation |-> None,
               can_run |-> runnable.can_run, reason |-> runnable.reason,
               affected_records |-> runnable.affected_records,
               needs_rerun |-> FALSE, needs_rerun_reason |-> RerunReason(0, None) ]

\* the response of get_operation_info; operation "" is a missing parameter
get_operation_info(store, missed, srcs, hist, operation) ==
    LET c == currently(store, missed)
        failed == [ op |-> "get_operation_info", operation |-> operation,
                    err |-> "param", currently |-> c, next_operation |-> None,
                    can_run |-> FALSE, reason |-> NoReason, affected_records |-> 0,
                    needs_rerun |-> FALSE, needs_rerun_reason |-> RerunReason(0, None) ]
        runnable == check_operation_runnable(operation, c, srcs)
        rerun == check_needs_rerun(operation, c, srcs, hist)
    IN  IF operation = "" THEN failed
        ELSE IF operation \notin OPERATION_DESCRIPTIONS THEN failed
        ELSE [ op |-> "get_operation_info", operation |-> operation, err |-> "none",
               currently |-> c, next_operation |-> None,
               can_run |-> runnable.can_run, reason |-> runnable.reason,
               affected_records |-> runnable.affected_records,
               needs_rerun |-> rerun.needs_rerun,
               needs_rerun_reason |-> rerun.reason ]

(***************************************************************************)
(* The status queries on a project at rest                                 *)
(***************************************************************************)
SrcA == Source(<<"data/search/", "a", ".bib">>, "colrev.crossref", "API", "cancer", NoParams)
SrcB == Source(<<"data/search/", "b", ".bib">>, "colrev.unknown_source", "DB", "", NoParams)

\* the record stores of the status queries: a new project without
\* records, or two records in any two states
StatusStores ==
    { << >> } \cup
    { [r \in RecIds |-> Rec(r, IF r = "r1" THEN a ELSE b, "T0", NoNote, "J0", NoNote, "")] :
        a \in RecordState, b \in RecordState }

\* the source lists of the status queries with their history files
SourceSetups ==
    { [sources |-> <<>>, history |-> NoHistory],
      [sources |-> <<SrcA>>, history |-> NoHistory],
      [sources |-> <<SrcA>>, history |-> save_source_history(NoHistory, SrcA, None)],
      [sources |-> <<SrcA, SrcB>>,
       history |-> save_source_history(NoHistory, SrcB, "2024-01-01")],
      [sources |-> <<SrcA, SrcB>>,
       history |-> save_source_history(save_source_history(NoHistory, SrcA, None),
                                       SrcB, "2024-01-01")] }

\* the operation parameter of get_operation_info
OperationInputs == OPERATION_DESCRIPTIONS \cup { "", "merge" }

\* the numbers of merged origins the retrieved count can miss: at most one
\* for each record
MissedInputs(store) ==
    { m \in 0..MaxMergedOrigins : m <= Cardinality(DOMAIN store) }

InitStatus ==
    /\ ServerIdle
    /\ records \in StatusStores
    /\ \E setup \in SourceSetups : sources = setup.sources /\ history = setup.history
    /\ settings = InitSettings
    /\ files = NoFiles
    /\ pdfs = {}
    /\ last = NoRequest

GetStatus ==
    \E missed \in MissedInputs(records) :
        /\ last' = get_status(records, missed, sources)
        /\ UNCHANGED <<records, settings, files, pdfs, sources, history, pc, stdin, stdout, request>>

GetOperationInfo ==
    \E missed \in MissedInputs(records), operation \in OperationInputs :
        /\ last' = get_operation_info(records, missed, sources, history, operation)
        /\ UNCHANGED <<records, settings, files, pdfs, sources, history, pc, stdin, stdout, request>>

GetPreprocessingSummary ==
    \E missed \in MissedInputs(records) :
        /\ last' = get_preprocessing_summary(records, missed)
        /\ UNCHANGED <<records, settings, files, pdfs, sources, history, pc, stdin, stdout, request>>

NextStatus ==
    \/ GetStatus
    \/ GetOperationInfo
    \/ GetPreprocessingSummary

SpecStatus == InitStatus /\ [][NextStatus]_vars

(***************************************************************************)
(* The source operations on a new project                                  *)
(***************************************************************************)
MaxSources == 1   \* sources a project is given

\* the search strings of the requests
Queries == { "cancer", "cancer AND treatment" }

\* the run dates of the requests: none, or the date of a database export
RunDates == { None, "2024-01-01" }

\* endpoint and search_type of add_source: missing, invalid, an API
\* source and a file-based source
EndpointInputs ==
    { <<"", "API">>, <<"colrev.pubmed", "">>, <<"colrev.pubmed", "WEB">>,
      <<"colrev.pubmed", "API">>, <<"colrev.unknown_source", "DB">> }

\* the results path add_source generates for the file-based source
ExportPath == << "data/search/", "unknown_source", ".bib" >>

\* filename of update_source and remove_source: missing, an extension, a
\* full path, a file no source has
FilenameInputs ==
    { <<>>, <<".bib">>, ExportPath, <<"x", ".bib">> }

\* search_parameters of update_source
ParameterInputs ==
    { Absent, J("dict", [retmax |-> "5"]), J("dict", [url |-> pubmed_url("cancer")]) }

\* what a response of the search handler carries
SourcesResponse(o) ==
    [ op |-> o.op, err |-> o.err, written |-> o.written, commits |-> o.commits,
      stale |-> o.stale ]

\* a new project; the export of a database search for "cancer" may have
\* been uploaded
InitSources ==
    /\ ServerIdle
    /\ records = << >>
    /\ settings = InitSettings
    /\ files \in { NoFiles, [f \in {ExportPath} |-> Results("cancer", NoParams)] }
    /\ pdfs = {}
    /\ sources = <<>>
    /\ history = NoHistory
    /\ last = NoRequest

AddSource ==
    \E e \in EndpointInputs, q \in Queries, run_date \in RunDates, skip_commit \in BOOLEAN :
        LET o == add_source(sources, history, files, e[1], e[2], q, <<>>, run_date, skip_commit) IN
        /\ Len(sources) < MaxSources
        /\ sources' = o.sources /\ history' = o.history /\ files' = o.files
        /\ last' = SourcesResponse(o)
        /\ UNCHANGED <<records, settings, pdfs, pc, stdin, stdout, request>>

UpdateSource ==
    \E fn \in FilenameInputs, q \in Queries \cup {None}, sp \in ParameterInputs, run_date \in RunDates, skip_commit \in BOOLEAN :
        LET o == update_source(sources, history, files, fn, q, sp, run_date, skip_commit) IN
        /\ sources' = o.sources /\ history' = o.history /\ files' = o.files
        /\ last' = SourcesResponse(o)
        /\ UNCHANGED <<records, settings, pdfs, pc, stdin, stdout, request>>

RemoveSource ==
    \E fn \in FilenameInputs, delete_file \in BOOLEAN, skip_commit \in BOOLEAN :
        LET o == remove_source(sources, history, files, fn, delete_file, skip_commit) IN
        /\ sources' = o.sources /\ history' = o.history /\ files' = o.files
        /\ last' = SourcesResponse(o)
        /\ UNCHANGED <<records, settings, pdfs, pc, stdin, stdout, request>>

GetSources ==
    /\ last' = SourcesResponse(get_sources(sources, history, files))
    /\ UNCHANGED <<records, settings, files, pdfs, sources, history, pc, stdin, stdout, request>>

Search ==
    \E completes \in BOOLEAN, skip_commit \in BOOLEAN :
        LET o == search(sources, history, files, completes, skip_commit) IN
        /\ sources' = o.sources /\ history' = o.history /\ files' = o.files
        /\ last' = SourcesResponse(o)
        /\ UNCHANGED <<records, settings, pdfs, pc, stdin, stdout, request>>

NextSources ==
    \/ AddSource
    \/ UpdateSource
    \/ RemoveSource
    \/ GetSources
    \/ Search

SpecSources == InitSources /\ [][NextSources]_vars

(***************************************************************************)
(* The staleness check and the snapshot write on configured sources        *)
(***************************************************************************)
\* the sources the requests of the search handler configure: the PubMed
\* API source and the file-based source, with any of the search strings
\* and with merged parameters
SourceConfigs ==
    UNION { { Source(<<"data/search/", "pubmed", ".bib">>, "colrev.pubmed", "API", q, ps) :
                ps \in { [url |-> pubmed_url(u)] : u \in Queries }
                       \cup { [url |-> pubmed_url(q), retmax |-> "5"] } } :
            q \in Queries }
    \cup
    { Source(ExportPath, "colrev.unknown_source", "DB", q, ps) :
        q \in Queries, ps \in { NoParams, [retmax |-> "5"] } }

\* one source, or the two sources in either order
SourceLists ==
    { <<a>> : a \in SourceConfigs } \cup
    { <<a, b>> : a \in SourceConfigs, b \in SourceConfigs }

\* the history files a list of sources can have: for each results path
\* none, or the snapshot of a source with that path
Histories(srcs) ==
    LET paths == { srcs[i].search_results_path : i \in 1..Len(srcs) }
        snapshots(path) ==
            { history_data(c, None) : c \in { x \in SourceConfigs : x.search_results_path = path } }
    IN  UNION { { h \in [P -> UNION { snapshots(path) : path \in P }] :
                    \A path \in P : h[path] \in snapshots(path) } :
                P \in SUBSET paths }

InitStaleness ==
    /\ ServerIdle
    /\ records = << >>
    /\ settings = InitSettings
    /\ files = NoFiles
    /\ pdfs = {}
    /\ sources \in SourceLists
    /\ history \in Histories(sources)
    /\ last = NoRequest

\* _save_source_history for a source immediately followed by
\* _check_source_staleness for it
SaveHistory ==
    \E i \in 1..Len(sources), run_date \in RunDates :
        /\ history' = save_source_history(history, sources[i], run_date)
        /\ last' = [ op |-> "save_history", err |-> "none", index |-> i,
                     written |-> {sources[i].search_results_path}, commits |-> 0,
                     stale |-> << check_source_staleness(sources[i], history') >> ]
        /\ UNCHANGED <<records, settings, files, pdfs, sources, pc, stdin, stdout, request>>

NextStaleness ==
    \/ GetSources
    \/ SaveHistory
    \/ GetOperationInfo

SpecStaleness == InitStaleness /\ [][NextStaleness]_vars

(***************************************************************************)
(* The enrichment requests on records awaiting the prescreen               *)
(***************************************************************************)
MaxBatch == 3   \* record ids in one batch request

\* the DOIs of the records: one the API has an abstract for, one it has
\* none for, one it fails on, one of a record the enrichment raises on,
\* and no DOI
DoiInputs == { "10.1/abstract", "10.1/no-abstract", "10.1/timeout", "10.1/malformed", "" }

\* the stores of the enrichment requests: r1 without abstract and with
\* any of the DOIs, r2 with a DOI the API has an abstract for and with or
\* without an abstract of its own
EnrichStores ==
    { [r \in RecIds |->
         IF r = "r1"
         THEN WithKey(Rec(r, "md_processed", "T0", NoNote, "J0", NoNote, ""), "doi", d)
         ELSE IF a = ""
         THEN WithKey(Rec(r, "md_processed", "T0", NoNote, "J0", NoNote, ""),
                      "doi", "10.1/abstract")
         ELSE WithKey(WithKey(Rec(r, "md_processed", "T0", NoNote, "J0", NoNote, ""),
                              "doi", "10.1/abstract"), "abstract", a)] :
        d \in DoiInputs, a \in { "", "A0" } }

\* record_ids of a batch request: the lists of at most MaxBatch ids, each
\* an existing id or an unknown one
RECURSIVE IdLists(_)
IdLists(n) ==
    IF n = 0 THEN { <<>> }
    ELSE LET shorter == IdLists(n - 1) IN
         shorter \cup { Append(l, id) : l \in { x \in shorter : Len(x) = n - 1 },
                                        id \in { "r1", "r2", "r9" } }

\* what is kept of an enrichment request: its parameters and its response
EnrichRequest(record_ids, skip_commit, o) ==
    [ op |-> o.op, err |-> o.err, record_ids |-> record_ids,
      skip_commit |-> skip_commit, commits |-> o.commits,
      enriched_count |-> o.enriched_count, failed_count |-> o.failed_count,
      results |-> o.results ]

InitEnrich ==
    /\ ServerIdle
    /\ records \in EnrichStores
    /\ settings = InitSettings
    /\ files = NoFiles
    /\ pdfs = {}
    /\ sources = <<>>
    /\ history = NoHistory
    /\ last = NoRequest

BatchEnrichRecords ==
    \E record_ids \in IdLists(MaxBatch), skip_commit \in BOOLEAN :
        LET o == batch_enrich_records(records, record_ids, skip_commit) IN
        /\ records' = o.records
        /\ last' = EnrichRequest(record_ids, skip_commit, o)
        /\ UNCHANGED <<settings, files, pdfs, sources, history, pc, stdin, stdout, request>>

EnrichRecordMetadata ==
    \E rid \in RecordIdInputs, skip_commit \in BOOLEAN :
        LET o == enrich_record_metadata(records, rid, skip_commit) IN
        /\ records' = o.records
        /\ last' = EnrichRequest(<<rid>>, skip_commit, o)
        /\ UNCHANGED <<settings, files, pdfs, sources, history, pc, stdin, stdout, request>>

NextEnrich ==
    \/ BatchEnrichRecords
    \/ EnrichRecordMetadata

SpecEnrich == InitEnrich /\ [][NextEnrich]_vars

(***************************************************************************)
(* Manual preparation of a record, with the entry type among the fields    *)
(* a request may name                                                      *)
(***************************************************************************)
\* the values a request gives for a field
TrackedValues ==
    [ title |-> { "T2" }, journal |-> { "Jn" }, ENTRYTYPE |-> { "book" },
      colrev_status |-> { "md_prepared" }, ID |-> { "x" } ]

\* the dicts over the keys K
FieldMaps(K) ==
    { m \in [K -> { J("str", v) : v \in UNION { TrackedValues[k] : k \in K } }] :
        \A k \in K : m[k].v \in TrackedValues[k] }

\* the fields parameter of prep_man_update_record
TrackedFieldsInputs ==
    { [t |-> "dict", m |-> m] :
        m \in UNION { FieldMaps(K) : K \in (SUBSET DOMAIN TrackedValues) \ { {} } } }
    \cup NoDictInputs

InitPrepMan ==
    /\ ServerIdle
    /\ records \in { [r \in RecIds |-> IF r = "r1" THEN a ELSE b] :
                       a \in { x \in InitRecords("r1") :
                                 x.colrev_status.v \in { "md_needs_manual_preparation",
                                                         "md_prepared" } },
                       b \in InitOthers("r2") }
    /\ settings = InitSettings
    /\ files = NoFiles
    /\ pdfs = { r \in RecIds : records[r].file # "" }
    /\ last = NoRequest
    /\ sources = <<>>
    /\ history = NoHistory

PrepManUpdateFields ==
    \E rid \in RecordIdInputs, f \in TrackedFieldsInputs, skip \in BOOLEAN :
        LET o == prep_man_update_record(records, rid, f, skip) IN
        /\ records' = o.records
        /\ last' = Request("prep_man_update_record", rid, skip, HasProtected(f), 0, o)
        /\ UNCHANGED <<settings, files, pdfs, sources, history, pc, stdin, stdout, request>>

NextPrepMan == PrepManUpdateFields

SpecPrepMan == InitPrepMan /\ [][NextPrepMan]_vars

(***************************************************************************)
(* The stdio server: run_stdio_server reads a line, handles the request    *)
(* and writes the response, one line after the other                       *)
(***************************************************************************)
MaxRequests == 3

\* a line of the input stream: a blank line, a line that is no JSON, or a
\* request with its method and parameters
Line(kind, method, record_id, decision) ==
    [kind |-> kind, method |-> method, record_id |-> record_id, decision |-> decision]

Lines ==
    { Line("blank", "", "", ""),
      Line("garbage", "", "", ""),
      Line("request", "ping", "", ""),
      Line("request", "nope", "", ""),
      Line("request", "screen_record", "r1", "exclude"),
      Line("request", "screen_record", "r2", "include") }

\* the lines of an input stream, each with its position n, which the client
\* gives as the id of the request
Numbered(s) == [i \in 1..Len(s) |-> [n |-> i, line |-> s[i]]]

InputStreams == { Numbered(s) : s \in UNION { [1..k -> Lines] : k \in 0..MaxRequests } }

\* read_jsonrpc_request: the end of the input and a blank line raise
\* EOFError, a line that is no JSON raises JSONDecodeError
read_jsonrpc_request(input) ==
    IF input = <<>> THEN [raised |-> "EOFError", rest |-> input]
    ELSE IF Head(input).line.kind = "blank"
         THEN [raised |-> "EOFError", rest |-> Tail(input)]
    ELSE IF Head(input).line.kind = "garbage"
         THEN [raised |-> "JSONDecodeError", rest |-> Tail(input)]
    ELSE [raised |-> "none", rest |-> Tail(input)]

\* a response line: the id of the request (0 for null) and the error kind,
\* "none" for a result
Response(id, err) == [id |-> id, err |-> err]

\* write_jsonrpc_response that prints nothing
write_jsonrpc_response_silent(out, response) ==
    out

\* write_jsonrpc_response: one line on the output stream
write_jsonrpc_response(out, response) ==
    Append(out, response)

\* JSONRPCHandler.handle_request for the methods of the input lines: the
\* exception of a handler and of an unknown method becomes an error response
handle_request(store, line) ==
    IF line.method = "ping" THEN Done(store, 0)
    ELSE IF line.method = "screen_record"
         THEN screen_record(store, line.record_id, line.decision, "", FALSE)
    ELSE Fail("method_not_found", store)

InitServer ==
    /\ records = [r \in RecIds |->
                       Rec(r, "pdf_prepared", "T0", NoNote, "J0", NoNote, "data/pdfs")]
    /\ settings = InitSettings
    /\ files = NoFiles
    /\ pdfs = RecIds
    /\ last = NoRequest
    /\ sources = <<>>
    /\ history = NoHistory
    /\ pc = "read"
    /\ stdin \in InputStreams
    /\ stdout = <<>>
    /\ request = Idle

\* a request is read and accepted
ReadRequest ==
    LET r == read_jsonrpc_request(stdin) IN
    /\ pc = "read"
    /\ r.raised = "none"
    /\ request' = Head(stdin)
    /\ stdin' = r.rest
    /\ pc' = "handle"
    /\ UNCHANGED <<records, settings, files, pdfs, last, sources, history, stdout>>

\* a line that is no JSON is answered with a parse error
ParseError ==
    LET r == read_jsonrpc_request(stdin) IN
    /\ pc = "read"
    /\ r.raised = "JSONDecodeError"
    /\ stdin' = r.rest
    /\ stdout' = write_jsonrpc_response(stdout, Response(0, "parse_error"))
    /\ UNCHANGED <<records, settings, files, pdfs, last, sources, history, pc, request>>

\* the end of the input stops the loop
Shutdown ==
    LET r == read_jsonrpc_request(stdin) IN
    /\ pc = "read"
    /\ r.raised = "EOFError"
    /\ stdin' = r.rest
    /\ pc' = "done"
    /\ UNCHANGED <<records, settings, files, pdfs, last, sources, history, stdout, request>>

\* the accepted request is handled: its writes are made and its response
\* is ready
HandleRequest ==
    LET o == handle_request(records, request.line) IN
    /\ pc = "handle"
    /\ records' = o.records
    /\ last' = Request(request.line.method, request.line.record_id, FALSE, FALSE, 0, o)
    /\ pc' = "write"
    /\ UNCHANGED <<settings, files, pdfs, sources, history, stdin, stdout, request>>

\* the response is written and the loop returns to reading
WriteResponse ==
    /\ pc = "write"
    /\ stdout' = write_jsonrpc_response(stdout, Response(request.n, last.err))
    /\ request' = Idle
    /\ pc' = "read"
    /\ UNCHANGED <<records, settings, files, pdfs, last, sources, history, stdin>>

NextServer ==
    \/ ReadRequest
    \/ ParseError
    \/ Shutdown
    \/ HandleRequest
    \/ WriteResponse

SpecServer == InitServer /\ [][NextServer]_vars

(***************************************************************************)
(* Requests on a project that another process commits to: every request   *)
(* is handled by a ReviewManager of its own                                *)
(***************************************************************************)
\* a handler that keeps the record set of the request before
review_manager_kept(disk, previous) ==
    IF previous = Empty THEN disk ELSE previous

\* _handle_with_review_manager: the ReviewManager and the handler are
\* created for the request and read the project from disk; JSONRPCHandler
\* keeps nothing of the request before
review_manager(disk, previous) ==
    disk

\* get_prescreen_queue: the records in md_processed
get_prescreen_queue(store) ==
    { r \in DOMAIN store : store[r].colrev_status = Enum("md_processed") }

\* what is kept of a request: the record set its handler worked on and
\* its answer
Answer(op, operation, view, c, next_operation, can_run, queue) ==
    [ op |-> op, operation |-> operation, view |-> view, currently |-> c,
      next_operation |-> next_operation, can_run |-> can_run, queue |-> queue ]

NoCounts == [state \in RecordState |-> 0]

InitFresh ==
    /\ ServerIdle
    /\ records = [r \in RecIds |-> Rec(r, "md_imported", "T0", NoNote, "J0", NoNote, "")]
    /\ settings = InitSettings
    /\ files = NoFiles
    /\ pdfs = {}
    /\ sources = <<SrcA>>
    /\ history = NoHistory
    /\ last = Answer("init", None, Empty, NoCounts, None, FALSE, {})

\* the states another process brings a record to
CommittedStates == { "md_prepared", "md_processed", "pdf_prepared" }

\* another process commits a change of a record's status
OtherProcessCommits ==
    \E r \in RecIds, state \in CommittedStates :
        /\ records' = [records EXCEPT ![r].colrev_status = Enum(state)]
        /\ UNCHANGED <<settings, files, pdfs, last, sources, history, pc, stdin, stdout, request>>

StatusRequest ==
    LET view == review_manager(records, last.view)
        o == get_status(view, 0, sources) IN
    /\ last' = Answer("get_status", None, view, o.currently, o.next_operation, FALSE, {})
    /\ UNCHANGED <<records, settings, files, pdfs, sources, history, pc, stdin, stdout, request>>

OperationInfoRequest ==
    \E operation \in OPERATION_DESCRIPTIONS :
        LET view == review_manager(records, last.view)
            o == get_operation_info(view, 0, sources, history, operation) IN
        /\ last' = Answer("get_operation_info", operation, view, o.currently, None,
                          o.can_run, {})
        /\ UNCHANGED <<records, settings, files, pdfs, sources, history, pc, stdin, stdout, request>>

PrescreenQueueRequest ==
    LET view == review_manager(records, last.view) IN
    /\ last' = Answer("get_prescreen_queue", None, view, NoCounts, None, FALSE,
                      get_prescreen_queue(view))
    /\ UNCHANGED <<records, settings, files, pdfs, sources, history, pc, stdin, stdout, request>>

PrescreenRequest ==
    \E rid \in RecIds, decision \in Decisions :
        LET view == review_manager(records, last.view)
            o == prescreen_record(view, rid, decision, FALSE) IN
        /\ records' = o.records
        /\ last' = Answer("prescreen_record", None, o.records, NoCounts, None, FALSE, {})
        /\ UNCHANGED <<settings, files, pdfs, sources, history, pc, stdin, stdout, request>>

NextFresh ==
    \/ OtherProcessCommits
    \/ StatusRequest
    \/ OperationInfoRequest
    \/ PrescreenQueueRequest
    \/ PrescreenRequest

SpecFresh == InitFresh /\ [][NextFresh]_vars

(***************************************************************************)
(* The single-record decision requests of the prescreen and the screen     *)
(***************************************************************************)
NextDecisions ==
    \/ PrescreenRecord
    \/ ScreenRecord

SpecDecisions == Init /\ [][NextDecisions]_vars

(***************************************************************************)
(* Properties                                                              *)
(***************************************************************************)
StatusChanged(r) ==
    /\ r \in DOMAIN records /\ r \in DOMAIN records'
    /\ records'[r].colrev_status # records[r].colrev_status

From(r) == records[r].colrev_status
To(r) == records'[r].colrev_status

UpdateOps == { "update_record", "prep_man_update_record" }
SingleRecordOps ==
    { "prescreen_record", "screen_record", "update_record",
      "prep_man_update_record" }
ValidationErrors == { "param", "protected", "not_found" }

\* C1: Lattice soundness.  Every change of a record's status that a request
\* makes without force is a pair of the allowed-transition table (a change
\* outside the table is rejected and the record keeps its status).
\* upload_pdf, which forces the status, is the only exception.
C1_LatticeSoundness ==
    [][ \A r \in RecIds :
          (StatusChanged(r) /\ last'.op # "upload_pdf")
              => /\ From(r).t = "enum" /\ To(r).t = "enum"
                 /\ <<From(r).v, To(r).v>> \in AllowedTransitions ]_vars

\* C2: A record leaves a manual-intervention state only by resolving the
\* condition that put it there: a manual preparation after which no fatal
\* defect remains, an uploaded file, or the not-available decision.
C2_ManualStatesOnlyResolved ==
    [][ \A r \in RecIds :
          (StatusChanged(r) /\ From(r).t = "enum" /\ From(r).v \in ManualStates)
              => \/ /\ From(r).v = "md_needs_manual_preparation"
                    /\ last'.op = "prep_man_update_record"
                    /\ ~has_fatal_quality_defects(records'[r])
                    /\ To(r) = Enum("md_prepared")
                 \/ /\ From(r).v \in { "pdf_needs_manual_retrieval",
                                       "pdf_needs_manual_preparation" }
                    /\ last'.op = "upload_pdf"
                    /\ r \in pdfs'
                 \/ /\ From(r).v = "pdf_needs_manual_retrieval"
                    /\ last'.op = "mark_pdf_not_available"
                    /\ To(r) = Enum("pdf_not_available") ]_vars

\* C3: Manual-prep gate.  After a successful manual-preparation update the
\* record is md_prepared if no fatal defect remains; otherwise its status is
\* still md_needs_manual_preparation and the returned remaining-defect list
\* has every field that still has a fatal defect.
C3_ManualPrepGate ==
    (last.op = "prep_man_update_record" /\ last.err = "none"
        /\ last.record_id \in DOMAIN records)
    => LET rec == records[last.record_id] IN
       IF has_fatal_quality_defects(rec)
       THEN /\ rec.colrev_status = Enum("md_needs_manual_preparation")
            /\ last.new_status = "md_needs_manual_preparation"
            /\ DOMAIN last.remaining =
                   { f \in MasterdataFields :
                       FatalCodes(rec.colrev_masterdata_provenance[f].note) # <<>> }
       ELSE /\ rec.colrev_status = Enum("md_prepared")
            /\ last.new_status = "md_prepared"

\* C4: Protected field immutability.  An update request (update_record or
\* prep_man_update_record) whose field map has a protected key is rejected,
\* with the protected-field error whenever its record_id names a stored
\* record, and it changes nothing: no record changes, so none of the other
\* fields of the request is applied, and nothing is committed.
C4_ProtectedFieldImmutability ==
    [][ (last'.op \in UpdateOps /\ last'.protected)
            => /\ last'.err # "none"
               /\ last'.record_id \in DOMAIN records => last'.err = "protected"
               /\ records' = records
               /\ last'.commits = 0 ]_vars

\* a protected-field request on a stored record was rejected, and the title
\* it also carried ("T") is not the record's title
C4_Witness ==
    /\ last.op = "update_record" /\ last.protected /\ last.err = "protected"
    /\ last.record_id \in DOMAIN records
    /\ records[last.record_id].title # "T"

\* C5: A record in rev_prescreen_excluded, rev_excluded or pdf_not_available
\* changes status only through an update-decision operation, and only
\* between the two states of a reversal pair.
C5_DeadEndsOnlyReversed ==
    [][ \A r \in RecIds :
          (StatusChanged(r) /\ From(r).t = "enum" /\ From(r).v \in DeadEndStates)
              => /\ last'.op \in { "update_prescreen_decisions",
                                   "update_screen_decisions" }
                 /\ To(r).t = "enum"
                 /\ <<From(r).v, To(r).v>> \in ReversalPairs ]_vars

\* C6: The status of every stored record is a state of the lattice.
C6_StatusInLattice ==
    \A r \in DOMAIN records : InLattice(records[r].colrev_status)

\* C7: A call that fails with a validation error has written nothing: the
\* records, the settings, the files and the commit history are as before.
C7_ValidationErrorWritesNothing ==
    [][ last'.err \in ValidationErrors
            => /\ records' = records
               /\ settings' = settings
               /\ files' = files
               /\ pdfs' = pdfs
               /\ last'.commits = 0 ]_vars

\* a two-entry update-decisions request was rejected while r1 was in a state
\* the request's valid entry (r1, include) would have changed
C7_Witness ==
    /\ last.op = "update_prescreen_decisions" /\ last.err = "param"
    /\ last.entries = 2
    /\ records["r1"].colrev_status = Enum("rev_prescreen_excluded")

\* C8: A successful call that changes the on-disk state and is not asked to
\* skip the commit creates exactly one commit.
C8_ExactlyOneCommit ==
    [][ (last'.err = "none" /\ ~last'.skipped
            /\ <<records', settings', files', pdfs'>> # <<records, settings, files, pdfs>>)
            => last'.commits = 1 ]_vars

\* C9: A successful call with the skip-commit flag set creates no commit.
C9_SkipCommitHonoured ==
    [][ (last'.err = "none" /\ last'.skipped) => last'.commits = 0 ]_vars

\* C10: A single-record operation removes no record and leaves every record
\* other than the one it names as it was.
C10_PartialSaveFrame ==
    [][ last'.op \in SingleRecordOps
            => \A r \in DOMAIN records :
                   /\ r \in DOMAIN records'
                   /\ r # last'.record_id => records'[r] = records[r] ]_vars

\* a prescreen decision was saved for r1 while r2 is in the store
C10_Witness ==
    /\ last.op = "prescreen_record" /\ last.err = "none" /\ last.record_id = "r1"
    /\ records["r1"].colrev_status = Enum("rev_prescreen_excluded")
    /\ "r2" \in DOMAIN records

\* the stages that work on records, in pipeline order
PipelineOrder ==
    << "load", "prep", "dedupe", "prescreen", "pdf_get", "pdf_prep", "screen", "data" >>

PipelineStages == { PipelineOrder[i] : i \in 1..Len(PipelineOrder) }

\* the stage has pending input records in the counts c
Pending(stage, c) == check_operation_runnable(stage, c, <<>>).affected_records > 0

\* the stage run before the stage
RunFirst(stage) ==
    IF stage = "load" THEN "search"
    ELSE PipelineOrder[(CHOOSE i \in 1..Len(PipelineOrder) : PipelineOrder[i] = stage) - 1]

\* a configured source has no run history
UnsearchedSources ==
    \E i \in 1..Len(sources) : sources[i].search_results_path \notin DOMAIN history

\* C11: When no stage has pending input records, the next operation of
\* get_status is "search" if a configured source has no run history and
\* None otherwise.
C11_NextOperationSearch ==
    (last.op = "get_status" /\ \A stage \in PipelineStages : ~Pending(stage, last.currently))
    => last.next_operation = (IF UnsearchedSources THEN "search" ELSE None)

\* C12: When a stage has pending input records, the next operation of
\* get_status is the first such stage in pipeline order.
C12_NextOperationFirstPending ==
    (last.op = "get_status" /\ \E stage \in PipelineStages : Pending(stage, last.currently))
    => \E i \in 1..Len(PipelineOrder) :
           /\ last.next_operation = PipelineOrder[i]
           /\ Pending(PipelineOrder[i], last.currently)
           /\ \A j \in 1..(i - 1) : ~Pending(PipelineOrder[j], last.currently)

\* no record is retrieved or imported, one needs manual preparation and one
\* is included: the next operation is prep, not data
C12_Witness ==
    /\ last.op = "get_status" /\ last.next_operation = "prep"
    /\ last.currently.md_retrieved = 0 /\ last.currently.md_imported = 0
    /\ last.currently.md_needs_manual_preparation = 1
    /\ last.currently.rev_included = 1

\* C13: For every stage other than search, get_operation_info reports
\* can_run exactly when the sum of the counts of the stage's input states
\* is greater than 0; when it is not, it reports a reason naming the stage
\* to run first and 0 affected records.
C13_RunnableIffPendingInput ==
    (last.op = "get_operation_info" /\ last.err = "none" /\ last.operation # "search")
    => /\ last.can_run
          = (state_counts(last.currently)[OPERATION_INPUT_STATES[last.operation]] > 0)
       /\ ~last.can_run
          => /\ last.reason.what # None
             /\ last.reason.run_first = RunFirst(last.operation)
             /\ last.affected_records = 0

\* C14: For every stage other than search, needs_rerun is true exactly
\* when the affected_records of the same response is greater than 0.
C14_NeedsRerunIffAffected ==
    (last.op = "get_operation_info" /\ last.err = "none" /\ last.operation # "search")
    => last.needs_rerun = (last.affected_records > 0)

\* prep needs a rerun for one record that needs manual preparation while
\* no record is in md_imported
C14_Witness ==
    /\ last.op = "get_operation_info" /\ last.operation = "prep"
    /\ last.needs_rerun /\ last.affected_records = 1
    /\ last.currently.md_imported = 0
    /\ last.currently.md_needs_manual_preparation = 1

\* C15: The search stage is runnable exactly when a source is configured,
\* and its affected_records is the number of configured sources; without a
\* source it is not runnable, with a reason and 0 affected records.
C15_SearchRunnableIffSources ==
    (last.op = "get_operation_info" /\ last.err = "none" /\ last.operation = "search")
    => /\ last.can_run = (Len(sources) > 0)
       /\ last.affected_records = Len(sources)
       /\ ~last.can_run => last.reason.what # None

\* search is runnable on a project with two sources
C15_Witness ==
    /\ last.op = "get_operation_info" /\ last.operation = "search"
    /\ last.can_run /\ last.affected_records = 2 /\ Len(sources) = 2

\* the decision of 4.4 for a source with the snapshot of its results path
StalenessRule(source) ==
    IF source.search_results_path \notin DOMAIN history
    THEN <<TRUE, "Search has not been run">>
    ELSE IF source.search_string # history[source.search_results_path].search_string
    THEN <<TRUE, "Search query changed">>
    ELSE IF source.search_parameters # history[source.search_results_path].search_parameters
    THEN <<TRUE, "Search parameters changed">>
    ELSE <<FALSE, None>>

C17_SaveThenCheckNotStale ==
    [][ last'.op = "save_history" => last'.stale = << <<FALSE, None>> >> ]_vars

\* the snapshot of a source with parameters has been written over the
\* snapshot of another query, with the export's run date
C17_Witness ==
    /\ last.op = "save_history"
    /\ last.stale = << <<FALSE, None>> >>
    /\ sources[last.index].search_string = "cancer AND treatment"
    /\ sources[last.index].search_parameters # NoParams
    /\ history[sources[last.index].search_results_path].last_run = "2024-01-01"

\* a request has removed a source, so that the sources after it are not
\* the sources before it
SourceRemoved == Len(sources') < Len(sources)

\* C18: After an update has changed the query of a source that has a
\* snapshot, and as long as no snapshot is written for the source, the
\* staleness check returns (True, "Search query changed").
C18_QueryChangeStaysStale ==
    [][ \A i \in 1..Len(sources) :
          LET path == sources[i].search_results_path IN
          (~SourceRemoved /\ path \in DOMAIN history /\ path \notin last'.written)
          => /\ (/\ last'.op = "update_source" /\ last'.err = "none"
                 /\ sources'[i].search_string # sources[i].search_string)
                => check_source_staleness(sources'[i], history')
                     = <<TRUE, "Search query changed">>
             /\ check_source_staleness(sources[i], history) = <<TRUE, "Search query changed">>
                => check_source_staleness(sources'[i], history')
                     = <<TRUE, "Search query changed">> ]_vars

\* C19: A source that is reported stale stays stale across every request
\* that does not write a snapshot for it, edits of its query or parameters
\* included.
C19_OnlySnapshotClearsStaleness ==
    [][ \A i \in 1..Len(sources) :
          (/\ check_source_staleness(sources[i], history)[1]
           /\ ~SourceRemoved
           /\ sources[i].search_results_path \notin last'.written)
          => check_source_staleness(sources'[i], history')[1] ]_vars

\* C20: After any request, every snapshot stands beside the results of a
\* completed run for exactly the query and parameters it records.
C20_SnapshotReflectsCompletedRun ==
    \A path \in DOMAIN history :
        /\ path \in DOMAIN files
        /\ files[path] = Results(history[path].search_string,
                                 history[path].search_parameters)

\* the sources the Staleness Detector reports stale
StaleSources ==
    { i \in 1..Len(sources) : check_source_staleness(sources[i], history)[1] }

\* C21: For the search stage, needs_rerun is true exactly when the
\* staleness check reports a configured source stale; the status-side
\* comparison and the staleness check agree on every source; and the
\* stale sources are reported in one message, which names the platform of
\* a single stale source and the number of several.
C21_SearchRerunAgreesWithStaleness ==
    (last.op = "get_operation_info" /\ last.err = "none" /\ last.operation = "search")
    => /\ last.needs_rerun = (StaleSources # {})
       /\ \A i \in 1..Len(sources) :
            (\/ sources[i].search_results_path \notin DOMAIN history
             \/ source_settings_changed(sources[i], history[sources[i].search_results_path]))
            = (i \in StaleSources)
       /\ Cardinality(StaleSources) = 1
          => last.needs_rerun_reason
               = RerunReason(1, sources[CHOOSE i \in StaleSources : TRUE].platform)
       /\ Cardinality(StaleSources) > 1
          => last.needs_rerun_reason = RerunReason(Cardinality(StaleSources), "sources")

\* two sources are stale, one of them by its parameters only, and the
\* response carries one message for both
C21_Witness ==
    /\ last.op = "get_operation_info" /\ last.operation = "search"
    /\ last.needs_rerun /\ last.needs_rerun_reason.count = 2
    /\ \E i \in 1..Len(sources) :
          check_source_staleness(sources[i], history) = <<TRUE, "Search parameters changed">>

\* C22: Every response that displays the current retrieved count displays
\* max(0, raw count), never a negative number, and the raw count it was
\* computed from is unchanged.
C22_DisplayedRetrievedClamped ==
    /\ last.op = "get_status"
       => /\ last.status.currently.md_retrieved >= 0
          /\ last.status.currently.md_retrieved
               = (IF last.currently.md_retrieved < 0 THEN 0 ELSE last.currently.md_retrieved)
    /\ last.op = "get_preprocessing_summary"
       => /\ last.pipeline_counts.md_retrieved >= 0
          /\ last.pipeline_counts.md_retrieved
               = (IF last.currently.md_retrieved < 0 THEN 0 ELSE last.currently.md_retrieved)

\* C23: The total_records of get_status, the sum of the displayed current
\* counts over all states, is the number of records in the store.
C23_TotalIsNumberOfRecords ==
    last.op = "get_status" => last.status.total_records = Cardinality(DOMAIN records)

\* the enrichment of the id fails on the store: the record does not
\* exist, or it has no abstract and its enrichment raises
EnrichmentFails(store, id) ==
    \/ id \notin DOMAIN store
    \/ /\ ~HasValue(store[id], "abstract")
       /\ enrich_single_record(store[id]).raised

\* the ids a batch response reports as enriched
Enriched(response) ==
    { response.results[i].id :
        i \in { j \in 1..Len(response.results) :
                  /\ response.results[j].success
                  /\ response.results[j].enriched_fields # <<>> } }

C25_BatchWritesOnlyEnriched ==
    [][ last'.op = "batch_enrich_records"
        => /\ DOMAIN records' = DOMAIN records
           /\ \A r \in DOMAIN records :
                /\ records'[r].colrev_status = records[r].colrev_status
                /\ IF last'.err = "none" /\ r \in Enriched(last')
                   THEN /\ HasValue(records'[r], "abstract")
                        /\ ~HasValue(records[r], "abstract")
                        /\ records'[r] = WithKey(records[r], "abstract", records'[r].abstract)
                   ELSE records'[r] = records[r]
           /\ last'.commits
                = (IF last'.err = "none" /\ Enriched(last') # {} /\ ~last'.skip_commit
                   THEN 1 ELSE 0) ]_vars

\* a committed batch with an enriched record, a failed id and a record
\* that was not enriched
C25_Witness ==
    /\ last.op = "batch_enrich_records" /\ last.err = "none"
    /\ last.commits = 1 /\ last.enriched_count = 1 /\ last.failed_count = 1
    /\ \E i \in 1..Len(last.results) :
          /\ last.results[i].id \in DOMAIN records
          /\ ~last.results[i].success
          /\ ~HasValue(records[last.results[i].id], "abstract")

\* an upload_pdf step in which the upload was accepted, the file written and
\* the record linked, and the PDF preparation (the collaborator) raised
PrepRaised(rid, skip, up) ==
    LET u == upload_pdf(records, pdfs, rid, up[1], up[2], skip, "raise")
        accepted == upload_pdf(records, pdfs, rid, up[1], up[2], skip, "ok")
    IN  /\ up[3] = "raise"
        /\ accepted.out.err = "none"
        /\ records' = u.out.records
        /\ pdfs' = u.pdfs
        /\ last' = Request("upload_pdf", rid, skip, FALSE, 0, u.out)

\* C26: a failure of an external collaborator during an operation is
\* propagated to the caller, and the durable store is either as it was before
\* the call or holds all of the operation's writes: when the PDF preparation
\* raises during upload_pdf, the response is an error, and the records and
\* PDF files are unchanged or are those of an upload whose preparation ran
C26_CollaboratorFailurePropagated ==
    [][ \A rid \in RecordIdInputs, skip \in BOOLEAN, up \in UploadInputs :
          PrepRaised(rid, skip, up) =>
              /\ last'.err # "none"
              /\ \/ records' = records /\ pdfs' = pdfs
                 \/ \E p \in { "ok", "defect" } :
                        records' =
                            upload_pdf(records, pdfs, rid, up[1], up[2], skip, p).out.records
      ]_vars


\* the error kinds by which a handler refuses a status change that the
\* record's current state does not allow
TransitionRejected(err) == err \in { "state", "invalid_transition" }

\* a mark_pdf_not_available step on record rid
Marked(rid) ==
    /\ last'.op = "mark_pdf_not_available"
    /\ last'.record_id = rid
    /\ rid \in DOMAIN records

\* C27: marking a record in pdf_needs_manual_retrieval as not available sets
\* its status to pdf_not_available; the same call on a record that is already
\* in pdf_not_available is refused with an error and leaves the status
\* pdf_not_available
C27_MarkNotAvailableTwice ==
    [][ \A rid \in RecIds :
          Marked(rid) =>
              /\ records[rid].colrev_status = Enum("pdf_needs_manual_retrieval")
                    => /\ last'.err = "none"
                       /\ records'[rid].colrev_status = Enum("pdf_not_available")
              /\ records[rid].colrev_status = Enum("pdf_not_available")
                    => /\ TransitionRejected(last'.err)
                       /\ records' = records
      ]_vars

\* a refused mark_pdf_not_available on a record in pdf_not_available
C27_Witness ==
    /\ last.op = "mark_pdf_not_available"
    /\ last.record_id \in DOMAIN records
    /\ TransitionRejected(last.err)
    /\ records[last.record_id].colrev_status = Enum("pdf_not_available")


\* C28: no record is ever removed from the store: whatever operation is
\* handled, every record id in the store before it is in the store after it,
\* the excluded records (rev_excluded, rev_prescreen_excluded) among them
C28_NoRecordDeleted ==
    [][ \A r \in DOMAIN records : r \in DOMAIN records' ]_vars

\* a record was excluded in the screen while another record excluded in the
\* prescreen is still in the store
C28_Witness ==
    /\ last.op = "screen_record" /\ last.err = "none"
    /\ last.new_status = "rev_excluded"
    /\ \E r \in DOMAIN records :
           /\ r # last.record_id
           /\ records[r].colrev_status = Enum("rev_prescreen_excluded")


\* the provenance entry of a field of a record
FieldProvenance(rec, key) ==
    IF key \in MasterdataFields
    THEN rec.colrev_masterdata_provenance[key]
    ELSE rec.colrev_data_provenance[key]

\* the fields that are assigned without a provenance entry: the protected
\* fields and the entry type
SystemFields == ProtectedFields \cup { Fields_ENTRYTYPE }

\* a successful prep_man_update_record step for record rid with fields f
TrackedUpdate(rid, f, skip) ==
    LET o == prep_man_update_record(records, rid, f, skip) IN
    /\ last'.err = "none"
    /\ last'.record_id = rid
    /\ o.err = "none"
    /\ records' = o.records
    /\ last' = Request("prep_man_update_record", rid, skip, HasProtected(f), 0, o)

\* C29: after a manual-preparation update, every field of the request other
\* than a system field has the value given and the provenance entry
\* {source: "prep_man|ui", note: ""}; a system field of the request (the
\* entry type) has the value given, and the provenance of the record has no
\* entry that the request did not name
C29_TrackedUpdateSetsProvenance ==
    [][ \A rid \in RecIds, f \in TrackedFieldsInputs, skip \in BOOLEAN :
          TrackedUpdate(rid, f, skip) =>
              /\ \A k \in DOMAIN f.m \ SystemFields :
                     FieldProvenance(records'[rid], k) = Prov("prep_man|ui", NoNote)
              /\ \A k \in (MasterdataFields \cup DataProvFields) \ DOMAIN f.m :
                     FieldProvenance(records'[rid], k) = FieldProvenance(records[rid], k)
              /\ Fields_ENTRYTYPE \in DOMAIN f.m
                     => records'[rid].ENTRYTYPE = f.m[Fields_ENTRYTYPE].v
      ]_vars

\* the title and the entry type were updated: the title carries the
\* actor's provenance entry, the journal its original one
C29_Witness ==
    /\ last.op = "prep_man_update_record" /\ last.err = "none"
    /\ last.record_id = "r1"
    /\ records["r1"].ENTRYTYPE = "book"
    /\ records["r1"].title = "T2"
    /\ records["r1"].colrev_masterdata_provenance.title = Prov("prep_man|ui", NoNote)
    /\ records["r1"].colrev_masterdata_provenance.journal.source = "src.bib"


\* C30: requests are processed one at a time: a line is taken from the input
\* only while no request is being handled and after every earlier line has
\* its response on the output; the store is written only by the request
\* that is being handled; and the response written is that of this request
C30_OneRequestAtATime ==
    [][ /\ stdin' # stdin
            => /\ pc = "read" /\ request = Idle
               /\ stdin' = Tail(stdin)
               /\ Head(stdin).line.kind # "blank" => Len(stdout) = Head(stdin).n - 1
        /\ records' # records
            => /\ pc = "handle" /\ pc' = "write"
               /\ request # Idle /\ request' = request /\ stdin' = stdin
        /\ stdout' # stdout /\ pc = "write"
            => /\ stdout' = Append(stdout, Response(request.n, last.err))
               /\ records' = records /\ stdin' = stdin
      ]_vars

\* the third request was accepted after the first one changed the store and
\* two responses were written
C30_Witness ==
    /\ pc = "handle"
    /\ request # Idle
    /\ request.n = MaxRequests
    /\ Len(stdout) = MaxRequests - 1
    /\ \E r \in DOMAIN records : records[r].colrev_status = Enum("rev_excluded")


\* C31: no view of the records is kept across requests: the answer of a
\* status, runnability or queue request is the one computed from the store
\* as it is when the request is handled, with every change committed before
\* it, those of another process included
C31_AnswersReflectStore ==
    [][ (last' # last /\ records' = records) =>
          LET c == currently(records, 0) IN
          /\ last'.view = records
          /\ last'.op = "get_status"
                => /\ last'.currently = c
                   /\ last'.next_operation = determine_next_operation(c, sources)
          /\ last'.op = "get_operation_info"
                => /\ last'.currently = c
                   /\ last'.can_run =
                          check_operation_runnable(last'.operation, c, sources).can_run
          /\ last'.op = "get_prescreen_queue"
                => last'.queue = get_prescreen_queue(records)
      ]_vars

\* the queue was asked for after another process brought both records to
\* md_processed
C31_Witness ==
    /\ last.op = "get_prescreen_queue"
    /\ last.queue = RecIds
    /\ last.view = records


\* a step that writes the snapshot of source i with the given run date
SnapshotWritten(i, run_date) ==
    /\ i \in 1..Len(sources)
    /\ last'.op = "save_history"
    /\ last'.index = i
    /\ history' = save_source_history(history, sources[i], run_date)

\* C32: the snapshot written for a source has every field of the source's
\* current configuration with its current value, has no field for the path
\* of the history file itself, and has a last-run timestamp that is the run
\* date given, or the current time when none is given
C32_SnapshotContent ==
    [][ \A i \in 1..2, run_date \in RunDates :
          SnapshotWritten(i, run_date) =>
              LET snapshot == history'[sources[i].search_results_path] IN
              /\ DOMAIN snapshot = DOMAIN sources[i] \cup { "last_run" }
              /\ \A k \in DOMAIN sources[i] : snapshot[k] = sources[i][k]
              /\ "search_history_path" \notin DOMAIN snapshot
              /\ snapshot.last_run = IF run_date = None THEN "now" ELSE run_date
      ]_vars

\* a snapshot with the run date of the request was written for a source
\* that has parameters
C32_Witness ==
    /\ last.op = "save_history"
    /\ sources[last.index].search_parameters # NoParams
    /\ history[sources[last.index].search_results_path].last_run = "2024-01-01"
    /\ history[sources[last.index].search_results_path].search_parameters
           = sources[last.index].search_parameters


\* the nine stage names
StageNames ==
    { "search", "load", "prep", "dedupe", "prescreen", "pdf_get", "pdf_prep",
      "screen", "data" }

\* C33: the operation-info request answers each of the nine stage names,
\* and refuses every other name and a missing name with an
\* invalid-parameter error
C33_StageVocabulary ==
    last.op = "get_operation_info"
        => /\ last.operation \in StageNames => last.err = "none"
           /\ last.operation \notin StageNames => last.err = "param"

\* a name outside the vocabulary was refused
C33_Witness ==
    /\ last.op = "get_operation_info"
    /\ last.operation = "merge"
    /\ last.err = "param"


\* a decision request may change the record only when the record is in the
\* input state of the stage and the decision is one of the two; it then
\* moves the record to the state of the decision; in every other case it
\* fails and the store is as before
DecisionEffect(o, rid, decision, valid, input, included, excluded) ==
    IF valid /\ rid \in DOMAIN records /\ records[rid].colrev_status = Enum(input)
    THEN /\ o.err = "none"
         /\ records'[rid].colrev_status =
                Enum(IF decision = "include" THEN included ELSE excluded)
         /\ \A r \in DOMAIN records \ {rid} : records'[r] = records[r]
    ELSE /\ o.err # "none"
         /\ records' = records

\* C34: prescreen_record applies only to a record in md_processed and
\* screen_record only to a record in pdf_prepared; decision include moves
\* the record to the included state of the stage and exclude to the
\* excluded state; for a record in any other state, an unknown record, an
\* invalid decision or an invalid criterion value the request fails and the
\* stored records are unchanged
C34_DecisionOnlyFromInputState ==
    [][ /\ last'.op = "prescreen_record"
            => \A rid \in RecordIdInputs, d \in DecisionInputs, skip \in BOOLEAN :
                 LET o == prescreen_record(records, rid, d, skip) IN
                 (records' = o.records
                  /\ last' = Request("prescreen_record", rid, skip, FALSE, 0, o))
                 => DecisionEffect(o, rid, d, d \in { "include", "exclude" },
                                   "md_processed", "rev_prescreen_included",
                                   "rev_prescreen_excluded")
        /\ last'.op = "screen_record"
            => \A rid \in RecordIdInputs, dc \in ScreenInputs, skip \in BOOLEAN :
                 LET o == screen_record(records, rid, dc[1], dc[2], skip) IN
                 (records' = o.records
                  /\ last' = Request("screen_record", rid, skip, FALSE, 0, o))
                 => DecisionEffect(o, rid, dc[1],
                                   dc[1] \in { "include", "exclude" }
                                       /\ dc[2] \in { "", "in", "out" },
                                   "pdf_prepared", "rev_included", "rev_excluded")
      ]_vars

\* a record was excluded in the prescreen
C34_Witness ==
    /\ last.op = "prescreen_record" /\ last.err = "none"
    /\ last.new_status = "rev_prescreen_excluded"
    /\ last.record_id \in DOMAIN records
    /\ records[last.record_id].colrev_status = Enum("rev_prescreen_excluded")


\* C35: whenever the next operation of get_status names a stage, the
\* runnability check of that stage on the same counts reports can_run with
\* more than 0 affected records, and reports every earlier stage of the
\* pipeline (search aside) as not runnable
C35_NextOperationIsFirstRunnable ==
    (last.op = "get_status" /\ last.next_operation \in PipelineStages)
    => \E i \in 1..Len(PipelineOrder) :
           /\ PipelineOrder[i] = last.next_operation
           /\ check_operation_runnable(PipelineOrder[i], last.currently, sources).can_run
           /\ check_operation_runnable(PipelineOrder[i], last.currently, sources)
                  .affected_records > 0
           /\ \A j \in 1..(i - 1) :
                  ~check_operation_runnable(PipelineOrder[j], last.currently, sources).can_run


\* the sum of the displayed counts of the input states of a stage
DisplayedInput(operation, c) ==
    state_counts(format_comprehensive_status_response(c).currently)
        [OPERATION_INPUT_STATES[operation]]

\* C36: for every stage other than search, affected_records is not
\* negative and is the sum of the displayed counts of the stage's input
\* states, and a stage whose displayed input counts are all 0 is reported
\* neither runnable nor as needing a re-run
C36_AffectedAgreesWithDisplay ==
    (last.op = "get_operation_info" /\ last.err = "none" /\ last.operation # "search")
    => /\ last.affected_records >= 0
       /\ last.affected_records = DisplayedInput(last.operation, last.currently)
       /\ DisplayedInput(last.operation, last.currently) = 0
              => ~last.can_run /\ ~last.needs_rerun


\* a step of one of the two enrichment operations
EnrichmentStep ==
    last'.op \in { "enrich_record_metadata", "batch_enrich_records" }

\* C37: Metadata enrichment, of one record or of a batch, never changes a
\* record's status: after the request the store has the same records, each
\* with the status it had before, also for the records the connector
\* returned in md_prepared.
C37_EnrichmentKeepsStatus ==
    [][ EnrichmentStep
        => /\ DOMAIN records' = DOMAIN records
           /\ \A r \in DOMAIN records :
                records'[r].colrev_status = records[r].colrev_status ]_vars

\* a single-record enrichment that saved the abstract of the connector,
\* which hands the record back in md_prepared, and the record is still in
\* md_processed
C37_Witness ==
    /\ last.op = "enrich_record_metadata" /\ last.err = "none"
    /\ last.enriched_count = 1
    /\ \E r \in DOMAIN records :
          /\ last.record_ids = <<r>>
          /\ HasValue(records[r], "abstract") /\ records[r].abstract = "A1"
          /\ records[r].colrev_status = Enum("md_processed")
          /\ prep_link_md(records[r]).rec.colrev_status = Enum("md_prepared")

(***************************************************************************)
(* JSONRPCHandler: the router                                              *)
(***************************************************************************)
\* _route_method: the handler class a method name is dispatched to, "pong"
\* for ping, None for a name in no branch (ValueError "Method not found")
route_method(method) ==
    CASE method = "ping" -> "pong"
      [] method \in { "init_project", "list_projects", "delete_project" } -> "InitHandler"
      [] method \in { "get_status", "status", "validate", "get_operation_info",
                      "get_preprocessing_summary" } -> "StatusHandler"
      [] method \in { "get_settings", "update_settings" } -> "SettingsHandler"
      [] method \in { "get_records", "get_record", "update_record" } -> "RecordsHandler"
      [] method \in { "get_git_status" } -> "GitHandler"
      [] method \in { "search", "get_sources", "add_source", "update_source",
                      "remove_source", "upload_search_file", "get_source_records" }
            -> "SearchHandler"
      [] method \in { "load" } -> "LoadHandler"
      [] method \in { "prep" } -> "PrepHandler"
      [] method \in { "dedupe" } -> "DedupeHandler"
      [] method \in { "prescreen", "get_prescreen_queue", "prescreen_record",
                      "enrich_record_metadata", "batch_enrich_records" }
            -> "PrescreenHandler"
      [] method \in { "pdf_get" } -> "PDFGetHandler"
      [] method \in { "pdf_prep" } -> "PDFPrepHandler"
      [] method \in { "screen", "get_screen_queue", "screen_record" } -> "ScreenHandler"
      [] method \in { "data" } -> "DataHandler"
      [] OTHER -> None

\* the endpoints the handler classes implement and the router has no
\* branch for
HandlerEndpoints ==
    { "prep_man_update_record", "update_prescreen_decisions", "update_screen_decisions",
      "upload_pdf", "mark_pdf_not_available" }

\* the method names of the requests: routed ones, the endpoints of the
\* handler classes, and a name nothing implements
RouterMethods ==
    { "ping", "prescreen_record", "screen_record", "nope" } \cup HandlerEndpoints

\* handle_request for a well-formed request: the method is routed, the
\* handler method of that name is called, and an exception becomes an
\* error response
RouteRequest ==
    \E method \in RouterMethods, rid \in RecIds, d \in { "include", "exclude" } :
        LET handler == route_method(method)
            o == IF handler = None THEN Fail("method_not_found", records)
                 ELSE IF handler = "PrescreenHandler"
                      THEN prescreen_record(records, rid, d, FALSE)
                 ELSE IF handler = "ScreenHandler"
                      THEN screen_record(records, rid, d, "", FALSE)
                 ELSE Done(records, 0)
        IN  /\ records' = o.records
            /\ last' = Request(method, rid, FALSE, FALSE, 0, o)
            /\ UNCHANGED <<settings, files, pdfs, sources, history,
                           pc, stdin, stdout, request>>

SpecRouter == Init /\ [][RouteRequest]_vars

\* C38: Every endpoint a handler class implements is dispatched by the
\* router: a request for prep_man_update_record, update_prescreen_decisions,
\* update_screen_decisions, upload_pdf or mark_pdf_not_available is never
\* answered with method-not-found.
C38_HandlerEndpointsRouted ==
    last.op \in HandlerEndpoints => last.err # "method_not_found"

(***************************************************************************)
(* Project directories: validation.py and InitHandler                      *)
(***************************************************************************)
MaxIdLen == 4   \* characters of a project_id

\* the characters of a project_id: a letter, the dot and the path separator
Chars == { "a", ".", "/" }

\* c.isalnum() or c in ("-", "_")
Kept(c) == c \in { "a", "-", "_" }

\* a project_id is a string, modelled as the sequence of its characters
ProjectIds == UNION { [1..k -> Chars] : k \in 0..MaxIdLen }

\* a path is the sequence of its components from the root; the working
\* directory of the server and the default base path ./projects
Cwd == << <<"h">> >>
BasePath == Cwd \o << <<"p">> >>
DotDot == <<".", ".">>

\* sanitize_project_id: the characters that are alphanumeric, hyphen or
\* underscore, << >> standing for the ValueError of an empty result
sanitize_project_id(project_id) == SelectSeq(project_id, Kept)

\* the components of a path string as pathlib splits it: empty components
\* and "." are dropped
RECURSIVE parts(_, _, _)
parts(s, i, cur) ==
    LET done == IF cur = <<>> \/ cur = <<".">> THEN <<>> ELSE <<cur>> IN
    IF i > Len(s) THEN done
    ELSE IF s[i] = "/" THEN done \o parts(s, i + 1, <<>>)
    ELSE parts(s, i + 1, Append(cur, s[i]))

\* base_path / project_id: an absolute project_id replaces the base path
JoinPath(base, project_id) ==
    IF project_id # <<>> /\ project_id[1] = "/" THEN parts(project_id, 1, <<>>)
    ELSE base \o parts(project_id, 1, <<>>)

\* the directories that exist: the base path, the project directories and
\* what they lie in
Directories(disk) ==
    UNION { { SubSeq(d, 1, k) : k \in 0..Len(d) } : d \in disk \cup { BasePath } }

\* the directory the operating system reaches along the components of a
\* path, ".." leading to the parent; the empty set when a component does
\* not exist
RECURSIVE Reach(_, _, _, _)
Reach(dirs, at, path, i) ==
    IF i > Len(path) THEN { at }
    ELSE IF path[i] = DotDot
         THEN Reach(dirs, IF at = <<>> THEN at ELSE SubSeq(at, 1, Len(at) - 1), path, i + 1)
    ELSE IF Append(at, path[i]) \in dirs
         THEN Reach(dirs, Append(at, path[i]), path, i + 1)
    ELSE {}

\* Path.exists() and the directory a path names
Resolve(disk, path) == Reach(Directories(disk), <<>>, path, 1)

IsPrefix(a, b) == Len(a) <= Len(b) /\ SubSeq(b, 1, Len(a)) = a

\* the outcome of a project operation: the directories afterwards and the
\* directory the operation acted on
ProjectOutcome(op, project_id, err, disk, acted) ==
    [ op |-> op, project_id |-> project_id, err |-> err, disk |-> disk, acted |-> acted ]

\* validate_project_path: the child of the base path named by the
\* sanitized id
validate_project_path(project_id) == BasePath \o << sanitize_project_id(project_id) >>

\* InitHandler.init_project: the target directory is created and becomes a
\* project
init_project(disk, project_id) ==
    IF project_id = <<>> \/ sanitize_project_id(project_id) = <<>>
    THEN ProjectOutcome("init_project", project_id, "param", disk, {})
    ELSE LET target_path == validate_project_path(project_id) IN
         ProjectOutcome("init_project", project_id, "none",
                        disk \cup { target_path }, { target_path })

\* _handle_with_review_manager for a read-only method: the project is
\* validated and a ReviewManager is opened in its directory
validate_existing_project(disk, project_id) ==
    IF project_id = <<>> \/ sanitize_project_id(project_id) = <<>>
    THEN ProjectOutcome("get_status", project_id, "param", disk, {})
    ELSE LET target_path == validate_project_path(project_id) IN
         IF Resolve(disk, target_path) = {}
         THEN ProjectOutcome("get_status", project_id, "param", disk, {})
         ELSE ProjectOutcome("get_status", project_id, "none", disk, { target_path })

\* InitHandler.delete_project: shutil.rmtree of base_path / project_id
delete_project(disk, project_id) ==
    IF project_id = <<>>
    THEN ProjectOutcome("delete_project", project_id, "param", disk, {})
    ELSE
    LET project_path == Resolve(disk, JoinPath(BasePath, project_id)) IN
    IF project_path = {}
    THEN ProjectOutcome("delete_project", project_id, "not_found", disk, {})
    ELSE IF project_path \cap disk = {}
    THEN ProjectOutcome("delete_project", project_id, "not_a_project", disk, {})
    ELSE ProjectOutcome("delete_project", project_id, "none",
                        { d \in disk : \A t \in project_path : ~IsPrefix(t, d) },
                        project_path)

\* what is kept of a project request
ProjectRequest(o) ==
    [ op |-> o.op, project_id |-> o.project_id, err |-> o.err, acted |-> o.acted ]

\* two projects under the base path, one project beside the base path and
\* one at the root
InitPaths ==
    /\ ServerIdle
    /\ records = Empty
    /\ settings = InitSettings
    /\ files = { BasePath \o << <<"a">> >>, BasePath \o << <<"a", "a">> >>,
                 Cwd \o << <<"a">> >>, << <<"a">> >> }
    /\ pdfs = {}
    /\ last = NoRequest
    /\ sources = <<>>
    /\ history = NoHistory

InitProjectRequest ==
    \E project_id \in ProjectIds :
        LET o == init_project(files, project_id) IN
        /\ files' = o.disk
        /\ last' = ProjectRequest(o)
        /\ UNCHANGED <<records, settings, pdfs, sources, history, pc, stdin, stdout, request>>

OpenProjectRequest ==
    \E project_id \in ProjectIds :
        LET o == validate_existing_project(files, project_id) IN
        /\ files' = o.disk
        /\ last' = ProjectRequest(o)
        /\ UNCHANGED <<records, settings, pdfs, sources, history, pc, stdin, stdout, request>>

DeleteProjectRequest ==
    \E project_id \in ProjectIds :
        LET o == delete_project(files, project_id) IN
        /\ files' = o.disk
        /\ last' = ProjectRequest(o)
        /\ UNCHANGED <<records, settings, pdfs, sources, history, pc, stdin, stdout, request>>

NextPaths ==
    \/ InitProjectRequest
    \/ OpenProjectRequest
    \/ DeleteProjectRequest

SpecPaths == InitPaths /\ [][NextPaths]_vars

\* the project-scoped operations
ProjectOps == { "init_project", "get_status", "delete_project" }

\* C39: Every project-scoped operation, delete_project included, acts only
\* on the direct child of the base path that the sanitized project id
\* names: no project_id with path separators or ".." reaches a directory
\* outside the base path.
C39_ActsOnSanitizedChild ==
    last.op \in ProjectOps
    => \A p \in last.acted :
          /\ Len(p) = Len(BasePath) + 1 /\ IsPrefix(BasePath, p)
          /\ p = BasePath \o << sanitize_project_id(last.project_id) >>

(***************************************************************************)
(* run_stdio_server with its interrupt, and the loop that keeps running    *)
(***************************************************************************)
\* KeyboardInterrupt: the user stops the server wherever the loop is
Interrupt ==
    /\ pc \in { "read", "handle", "write" }
    /\ pc' = "interrupted"
    /\ UNCHANGED <<records, settings, files, pdfs, last, sources, history,
                   stdin, stdout, request>>

NextInterruptible ==
    \/ ReadRequest
    \/ ParseError
    \/ Shutdown
    \/ HandleRequest
    \/ WriteResponse
    \/ Interrupt

\* the process runs the loop until it leaves it: a step of the loop that
\* can be taken is taken; nothing makes the interrupt happen
SpecServerFair == InitServer /\ [][NextInterruptible]_vars /\ WF_vars(NextServer)

\* the request with id n is on the input, not read yet
PendingRequest(n) ==
    \E i \in 1..Len(stdin) : stdin[i].n = n /\ stdin[i].line.kind = "request"

\* a response with id n is on the output
Answered(n) ==
    \E j \in 1..Len(stdout) : stdout[j].id = n

\* C40: The server stops reading only at the end of the input or on an
\* interrupt, and unless it is interrupted every request on the input is
\* eventually answered with a response that carries its id.
C40_EveryRequestAnswered ==
    /\ [](pc = "done" => stdin = <<>>)
    /\ \A n \in 1..MaxRequests : PendingRequest(n) ~> (Answered(n) \/ pc = "interrupted")

============================================================================
